---------------------------- MODULE Spec2Model ----------------------------
(***************************************************************************)
(* Lifecycle orchestration of the repository:                              *)
(*   - GracefulShutdown (src/scripts/shutdown.py): the phased shutdown,    *)
(*     its task cancellation and its resource cleanup;                     *)
(*   - TaskGraph (src/scripts/shutdown.py): the cleanup order;             *)
(*   - Application (src/main.py): dependency resolution and startup.       *)
(*                                                                         *)
(* Python names are kept, without their leading underscore.  asyncio is    *)
(* cooperative: code between two awaits is one atomic step, and an action  *)
(* below never spans a suspension of the coroutine it models.              *)
(***************************************************************************)
EXTENDS Naturals, Sequences, FiniteSets

(***************************************************************************)
(* Bounds of the model.                                                    *)
(***************************************************************************)
\* registration calls made on the orchestrator before shutdown() is called
MaxSetup == 2
\* concurrent or sequential callers of shutdown()
MaxCallers == 2

Callers == 1..MaxCallers

\* phase handler callables, tracked tasks and resource names of the model
Handlers == {"h1", "h2", "h3"}
HandlerSeq == <<"h1", "h2", "h3">>
Tasks == {"t1", "t2"}
TaskSeq == <<"t1", "t2">>
\* resource / service names; NodeSeq is their lexicographic order, the order
\* of Python's sorted() on these strings
Nodes == {"A", "B", "C"}
NodeSeq == <<"A", "B", "C">>

NoNode == "none"

(***************************************************************************)
(* Enumerations of the source.                                             *)
(***************************************************************************)
\* class ShutdownPhase: iteration over an Enum follows definition order
ShutdownPhase ==
    <<"INITIALIZE", "STOP_ACCEPTING", "DRAIN_REQUESTS", "CANCEL_TASKS",
      "CLEANUP_RESOURCES", "FINALIZE">>

Phases == {ShutdownPhase[i] : i \in 1..Len(ShutdownPhase)}

\* class TaskPriority, in definition order
TaskPriority == <<"CRITICAL", "HIGH", "MEDIUM", "LOW">>

Priorities == {TaskPriority[i] : i \in 1..Len(TaskPriority)}

(***************************************************************************)
(* Sequence helpers.                                                       *)
(***************************************************************************)
Range(s) == {s[i] : i \in 1..Len(s)}

IndexOf(s, x) == CHOOSE i \in 1..Len(s) : s[i] = x

\* the elements of set S in the order in which they occur in sequence s
Restrict(s, S) == SelectSeq(s, LAMBDA x : x \in S)

Permutations(S) ==
    {s \in [1..Cardinality(S) -> S] : \A x \in S : \E i \in DOMAIN s : s[i] = x}

Reverse(s) == [i \in 1..Len(s) |-> s[Len(s) + 1 - i]]


(***************************************************************************)
(* State.                                                                  *)
(***************************************************************************)
VARIABLES
    \* ---- GracefulShutdown (src/scripts/shutdown.py) ----
    shutdown_in_progress,   \* self._shutdown_in_progress
    shutdown_event,         \* self.shutdown_event (asyncio.Event): is it set
    context,                \* self._context: "none" or the ShutdownContext
    phase_handlers,         \* self._phase_handlers: phase -> registered handlers
    tasks,                  \* self._tasks: tracked task -> priority, "none" if absent
    cleanup_handlers,       \* keys of self._cleanup_handlers
    metrics_errors,         \* self._metrics.errors: label 'type' -> count
    \* ---- TaskGraph (self._task_graph) ----
    tg_dependencies,        \* self._dependencies: task -> set of tasks
    tg_weights,             \* self._weights: <<task, depends_on>> -> weight
    \* ---- the coroutines of one run ----
    caller,                 \* each shutdown() call: idle, running, noop, returned
    pc,                     \* where the running shutdown() is suspended
    hstate,                 \* each phase handler coroutine
    tstate,                 \* each tracked task
    cancel,                 \* locals of _cancel_tasks_by_priority
    cleanup,                \* locals of _run_cleanup_handlers
    report,                 \* what _finalize_shutdown logged, "none" before
    \* ---- history of the run ----
    setup_calls,            \* number of registration calls made
    phase_runs,             \* phase -> times _run_phase entered it
    cancel_runs,            \* times _cancel_tasks_by_priority was entered
    cleanup_runs,           \* times _run_cleanup_handlers was entered
    elapsed,                \* time since self._shutdown_start
    scope_elapsed,          \* time since the current asyncio.timeout was entered
    \* ---- GracefulShutdown: resource dependencies ----
    dependency_graph,       \* self._dependency_graph: resource -> set of resources
    dependency_keys,        \* the keys of that dict, in insertion order
    cleanup_order,          \* self._cleanup_order
    register_outcome,       \* how the last register_resource_dependency ended
    register_calls,         \* number of register_resource_dependency calls
    \* ---- Application (src/main.py) ----
    services,               \* keys of self._services, in insertion order
    app_dependency_graph,   \* self._dependency_graph: service -> set of services
    startup_order,          \* self._startup_order
    startup_complete,       \* self._startup_complete (asyncio.Event): is it set
    sstate,                 \* each service: new, starting, failed, started
    app_pc,                 \* where init_services() or startup() is suspended
    app_outcome,            \* how the last init_services() or startup() ended
    resolve_outcome,        \* how the last _resolve_dependencies() ended
    exhausted,              \* services whose last _init_service used up its attempts
    retried,                \* services of which some start() attempt raised
    app_calls               \* number of init_services() and startup() calls

shutdownVars ==
    <<shutdown_in_progress, shutdown_event, context, phase_handlers, tasks,
      cleanup_handlers, metrics_errors, tg_dependencies, tg_weights, caller,
      pc, hstate, tstate, cancel, cleanup, report, setup_calls, phase_runs,
      cancel_runs, cleanup_runs, elapsed, scope_elapsed>>

dependencyVars ==
    <<dependency_graph, dependency_keys, cleanup_order, register_outcome,
      register_calls>>

appVars ==
    <<services, app_dependency_graph, startup_order, startup_complete, sstate,
      app_pc, app_outcome, resolve_outcome, exhausted, retried, app_calls>>

VARIABLES
    \* ---- CircuitBreaker (src/src/core/circuit_breaker.py) ----
    cb_built,               \* has CircuitBreaker.__init__ run
    cb_config,              \* self.config
    cb_state,               \* self.state
    cb_stats,               \* self.stats
    half_open_calls,        \* self._half_open_calls
    state_change_time,      \* self._state_change_time
    response_times,         \* len(self._response_times)
    last_call,              \* how the last call() went
    cb_calls,               \* number of call() calls
    half_open_invoked       \* times func was awaited in the latest HALF_OPEN period

breakerVars ==
    <<cb_built, cb_config, cb_state, cb_stats, half_open_calls,
      state_change_time, response_times, last_call, cb_calls,
      half_open_invoked>>

VARIABLES
    \* ---- resource locks and DeadlockDetector (src/scripts/shutdown.py) ----
    enhanced_locks,         \* self._enhanced_locks: resource -> EnhancedResourceLock
    managers,               \* ResourceContextManagers handed out and not yet exited, by task
    last_release,           \* how the last ResourceContextManager.__aexit__ went
    resource_locks,         \* DeadlockDetector._resource_locks: the resources added
    task_dependencies,      \* DeadlockDetector._task_dependencies: task -> set of tasks
    deadlock_state,         \* DeadlockDetector._state
    last_check,             \* DeadlockDetector._last_check
    last_acquire,           \* how the last _acquire_resource() went
    contended,              \* requests made for a lock another task held
    lock_calls              \* number of _acquire_resource() calls

lockVars ==
    <<enhanced_locks, managers, resource_locks, task_dependencies,
      deadlock_state, last_check, last_acquire, contended, lock_calls,
      last_release>>

VARIABLES
    \* ---- ResourceStateMachine (src/scripts/shutdown.py) ----
    rsm_states,             \* self._states: resource -> ResourceState, or no entry
    last_transition,        \* how the last transition() went
    state_machine_states    \* GracefulShutdown._state_machine._states

rsmVars == <<rsm_states, last_transition, state_machine_states>>

VARIABLES
    \* ---- AdaptiveTimeoutManager (src/src/scripts/shutdown.py) ----
    atm_built,              \* has AdaptiveTimeoutManager.__init__ run
    atm_min,                \* self._min
    atm_max,                \* self._max
    atm_history             \* self._history: key -> deque of durations, or no entry

timeoutVars == <<atm_built, atm_min, atm_max, atm_history>>

VARIABLES
    \* ---- GracefulShutdown._run_single_cleanup (src/scripts/shutdown.py) ----
    rsc_status,             \* resource -> where its _run_single_cleanup() call is
    rsc_attempts,           \* resource -> how the awaits of handler.handler() ended, in order
    resource_freed,         \* self._resource_tracking[resource].freed
    resource_errors,        \* errors counted by _handle_cleanup_error
    cleanup_failures        \* ResourceCleanupErrors recorded by _handle_cleanup_failure

retryVars ==
    <<rsc_status, rsc_attempts, resource_freed, resource_errors,
      cleanup_failures>>

VARIABLES
    \* ---- GracefulShutdown._update_timeout_statistics (src/scripts/shutdown.py) ----
    timings_recorded        \* key -> the durations handed over for it, oldest first

statVars == <<timings_recorded>>

VARIABLES
    now                     \* datetime.now(), in whole time units

\* the state of the components that are used on their own
componentVars ==
    <<now, breakerVars, lockVars, rsmVars, timeoutVars, retryVars, statVars>>

\* the state that a step of a circuit breaker leaves alone
outsideBreaker ==
    <<shutdownVars, dependencyVars, appVars, lockVars, rsmVars, timeoutVars,
      retryVars, statVars>>

\* the state that a step of the resource locks leaves alone
outsideLocks ==
    <<shutdownVars, dependencyVars, appVars, now, breakerVars, rsmVars,
      timeoutVars, retryVars, statVars>>

\* the state that the passing of time leaves alone
outsideClock ==
    <<shutdownVars, dependencyVars, appVars, breakerVars, lockVars, rsmVars,
      timeoutVars, retryVars, statVars>>

\* the state that a step of the resource state machine leaves alone
outsideStates ==
    <<shutdownVars, dependencyVars, appVars, now, breakerVars, lockVars,
      timeoutVars, retryVars, statVars>>

\* the state that a step of the adaptive timeouts leaves alone
outsideTimeouts ==
    <<shutdownVars, dependencyVars, appVars, now, breakerVars, lockVars,
      rsmVars, retryVars, statVars>>

\* the state that a step of _run_single_cleanup leaves alone
outsideRetry ==
    <<shutdownVars, dependencyVars, appVars, now, breakerVars, lockVars,
      rsmVars, timeoutVars, statVars>>

\* the state that _update_timeout_statistics leaves alone
outsideStatistics ==
    <<shutdownVars, dependencyVars, appVars, now, breakerVars, lockVars,
      rsmVars, retryVars>>

vars == <<shutdownVars, dependencyVars, appVars, componentVars>>

\* the state that a step of the phased shutdown leaves alone
outsideShutdown == <<dependencyVars, appVars, componentVars>>

(***************************************************************************)
(* TaskGraph: src/scripts/shutdown.py, class TaskGraph.                    *)
(***************************************************************************)
\* add_dependency's default weight and the largest weight of the model
DefaultWeight == 1
MaxWeight == 2

Weights == 1..MaxWeight

\* self._weights.get((task, d), 1)
\* (an absent key is kept as weight 0 in the model)
WeightOf(w, task, d) == IF w[<<task, d>>] # 0 THEN w[<<task, d>>] ELSE DefaultWeight

\* sorted(..., key=weight, reverse=True) is stable: dependencies come by
\* descending weight, and among equal weights in the set's iteration order.
RECURSIVE SortByWeight(_, _, _, _)
SortByWeight(s, w, task, k) ==
    IF k = 0 THEN <<>>
    ELSE SelectSeq(s, LAMBDA d : WeightOf(w, task, d) = k)
             \o SortByWeight(s, w, task, k - 1)

\* keys of self._dependencies and of self._reverse_deps: every task that is
\* an end of an edge
GraphTasks(deps) ==
    {t \in Nodes : deps[t] # {}} \cup UNION {deps[t] : t \in Nodes}

\* visit(task, path) of get_cleanup_order; st carries visited, order and the
\* ValueError once raised (err: the task found on the path, with that path).
\* so is the iteration order of the process's sets of strings, which Python
\* leaves unspecified (it follows the per-process string hashes).
RECURSIVE tg_visit(_, _, _, _, _, _), tg_visit_deps(_, _, _, _, _, _, _)
tg_visit(deps, w, so, task, path, st) ==
    IF st.err # NoNode THEN st
    ELSE IF task \in path
    THEN [st EXCEPT !.err = task, !.errpath = path]
    ELSE IF task \in st.visited THEN st
    ELSE LET sorted == SortByWeight(Restrict(so, deps[task]), w, task, MaxWeight)
             st2 == tg_visit_deps(deps, w, so, sorted, 1, path \cup {task}, st)
         IN  IF st2.err # NoNode THEN st2
             ELSE [st2 EXCEPT !.visited = @ \cup {task},
                              !.order = Append(@, task)]

tg_visit_deps(deps, w, so, ds, i, path, st) ==
    IF i > Len(ds) \/ st.err # NoNode THEN st
    ELSE tg_visit_deps(deps, w, so, ds, i + 1, path,
                       tg_visit(deps, w, so, ds[i], path, st))

RECURSIVE tg_visit_all(_, _, _, _, _, _)
tg_visit_all(deps, w, so, ts, i, st) ==
    IF i > Len(ts) \/ st.err # NoNode THEN st
    ELSE tg_visit_all(deps, w, so, ts, i + 1,
                      IF ts[i] \in st.visited THEN st
                      ELSE tg_visit(deps, w, so, ts[i], {}, st))

\* TaskGraph.get_cleanup_order: [order, err]; err # NoNode models the
\* ValueError("Circular dependency detected: ...")
get_cleanup_order(deps, w, so) ==
    tg_visit_all(deps, w, so, Restrict(NodeSeq, GraphTasks(deps)), 1,
                 [visited |-> {}, order |-> <<>>, err |-> NoNode, errpath |-> {}])

\* TaskGraph.add_dependency(task, depends_on, weight)
add_dependency(task, depends_on, weight) ==
    /\ tg_dependencies' = [tg_dependencies EXCEPT ![task] = @ \cup {depends_on}]
    /\ tg_weights' = [tg_weights EXCEPT ![<<task, depends_on>>] = weight]


(***************************************************************************)
(* GracefulShutdown: registration.                                         *)
(***************************************************************************)
\* ShutdownConfig.batch_size as the model runs it (the default is 10): small
\* enough for a tier of the model's tasks to need more than one batch.
batch_size == 1

ErrorTypes ==
    {"phase_timeout", "phase_error", "shutdown_error", "total_errors",
     "task_error", "batch_failure", "batch_processing"}

\* self._metrics.errors.labels(type=...).inc(n)
IncErrors(m, type, n) == [m EXCEPT ![type] = @ + n]

Registered(h) == \E p \in Phases : h \in phase_handlers[p]

PhaseOf(h) == CHOOSE p \in Phases : h \in phase_handlers[p]

PhaseIndex(p) == IndexOf(ShutdownPhase, p)

\* Handlers are registered in the order h1, h2, ... and to phases in
\* non-decreasing order: every other registration is one of these renamed.
NextHandler(h, p) ==
    /\ ~Registered(h)
    /\ \A g \in Handlers :
           IndexOf(HandlerSeq, g) < IndexOf(HandlerSeq, h) =>
               Registered(g) /\ PhaseIndex(PhaseOf(g)) <= PhaseIndex(p)

\* register_phase_handler(phase, handler)
register_phase_handler(p, h) ==
    /\ pc.at = "idle"
    /\ NextHandler(h, p)
    /\ phase_handlers' = [phase_handlers EXCEPT ![p] = @ \cup {h}]
    /\ setup_calls' = setup_calls + 1
    /\ UNCHANGED <<shutdown_in_progress, shutdown_event, context, tasks,
                   cleanup_handlers, metrics_errors, tg_dependencies,
                   tg_weights, caller, pc, hstate, tstate, cancel, cleanup,
                   report, phase_runs, cancel_runs, cleanup_runs>>
    /\ UNCHANGED <<elapsed, scope_elapsed>>
    /\ UNCHANGED outsideShutdown

\* Tasks are registered in the order t1, t2, ... and by non-increasing
\* urgency: every other registration is one of these renamed.
NextTask(t, prio) ==
    \A u \in Tasks :
        IndexOf(TaskSeq, u) < IndexOf(TaskSeq, t) =>
            /\ tasks[u] # "none"
            /\ IndexOf(TaskPriority, tasks[u]) <= IndexOf(TaskPriority, prio)

\* register_task(task, priority, name): entering the context manager adds the
\* tracked task to self._tasks
register_task(t, prio) ==
    /\ pc.at = "idle"
    /\ tasks[t] = "none"
    /\ NextTask(t, prio)
    /\ tasks' = [tasks EXCEPT ![t] = prio]
    /\ setup_calls' = setup_calls + 1
    /\ UNCHANGED <<shutdown_in_progress, shutdown_event, context,
                   phase_handlers, cleanup_handlers, metrics_errors,
                   tg_dependencies, tg_weights, caller, pc, hstate, tstate,
                   cancel, cleanup, report, phase_runs, cancel_runs,
                   cleanup_runs>>
    /\ UNCHANGED <<elapsed, scope_elapsed>>
    /\ UNCHANGED outsideShutdown

\* register_task, "finally: self._tasks.remove(tracked)": the "async with"
\* block of the coroutine that registered the task ends, at a time of that
\* coroutine's choosing
register_task_exit(t) ==
    /\ tasks[t] # "none"
    /\ tasks' = [tasks EXCEPT ![t] = "none"]
    /\ UNCHANGED <<shutdown_in_progress, shutdown_event, context,
                   phase_handlers, cleanup_handlers, metrics_errors,
                   tg_dependencies, tg_weights, caller, pc, hstate, tstate,
                   cancel, cleanup, report, setup_calls, phase_runs,
                   cancel_runs, cleanup_runs>>
    /\ UNCHANGED <<elapsed, scope_elapsed>>
    /\ UNCHANGED outsideShutdown

\* register_cleanup(name, handler, priority, timeout)
register_cleanup(name) ==
    /\ pc.at = "idle"
    /\ name \notin cleanup_handlers
    /\ cleanup_handlers' = cleanup_handlers \cup {name}
    /\ setup_calls' = setup_calls + 1
    /\ UNCHANGED <<shutdown_in_progress, shutdown_event, context,
                   phase_handlers, tasks, metrics_errors, tg_dependencies,
                   tg_weights, caller, pc, hstate, tstate, cancel, cleanup,
                   report, phase_runs, cancel_runs, cleanup_runs>>
    /\ UNCHANGED <<elapsed, scope_elapsed>>
    /\ UNCHANGED outsideShutdown

\* self._task_graph.add_dependency(task, depends_on) with the default weight
task_graph_add_dependency(task, depends_on) ==
    /\ pc.at = "idle"
    /\ depends_on \notin tg_dependencies[task]
    /\ add_dependency(task, depends_on, DefaultWeight)
    /\ setup_calls' = setup_calls + 1
    /\ UNCHANGED <<shutdown_in_progress, shutdown_event, context,
                   phase_handlers, tasks, cleanup_handlers, metrics_errors,
                   caller, pc, hstate, tstate, cancel, cleanup, report,
                   phase_runs, cancel_runs, cleanup_runs>>
    /\ UNCHANGED <<elapsed, scope_elapsed>>
    /\ UNCHANGED outsideShutdown

(***************************************************************************)
(* GracefulShutdown.shutdown and _run_phase.                               *)
(***************************************************************************)
\* shutdown() without its guard
AlreadyInProgress_unguarded == FALSE

\* is_shutting_down(): "return self.shutdown_event.is_set()"
is_shutting_down == shutdown_event

\* the guard of shutdown(): "if self._shutdown_in_progress: return"
AlreadyInProgress == shutdown_in_progress

\* shutdown(signal_name), up to its first suspension.  The test of the flag
\* and its assignment have no await between them.  Callers are numbered in
\* the order of their calls.
shutdown(c) ==
    /\ caller[c] = "idle"
    /\ \A b \in Callers : b < c => caller[b] # "idle"
    /\ IF AlreadyInProgress
       THEN /\ caller' = [caller EXCEPT ![c] = "noop"]
            /\ UNCHANGED <<shutdown_in_progress, shutdown_event, context, pc>>
       ELSE /\ shutdown_in_progress' = TRUE
            /\ shutdown_event' = TRUE
            /\ context' = [phase |-> "INITIALIZE", errors |-> <<>>,
                           completed_phases |-> {}]
            /\ caller' = [caller EXCEPT ![c] = "running"]
            /\ pc' = [at |-> "loop", i |-> 1]
    /\ UNCHANGED <<phase_handlers, tasks, cleanup_handlers, metrics_errors,
                   tg_dependencies, tg_weights, hstate, tstate, cancel,
                   cleanup, report, setup_calls, phase_runs, cancel_runs,
                   cleanup_runs>>
    /\ UNCHANGED <<elapsed, scope_elapsed>>
    /\ UNCHANGED outsideShutdown

\* "for phase in ShutdownPhase: context.phase = phase; await _run_phase(...)"
\* up to the await of asyncio.gather(*(h() for h in handlers)): gather wraps
\* every handler coroutine in a task of its own.
enter_phase ==
    /\ pc.at = "loop"
    /\ pc.i <= Len(ShutdownPhase)
    /\ LET p == ShutdownPhase[pc.i]
       IN  /\ context' = [context EXCEPT !.phase = p]
           /\ hstate' = [h \in Handlers |->
                            IF h \in phase_handlers[p] THEN "running" ELSE hstate[h]]
           /\ phase_runs' = [phase_runs EXCEPT ![p] = @ + 1]
    /\ pc' = [pc EXCEPT !.at = "run_phase"]
    /\ UNCHANGED <<shutdown_in_progress, shutdown_event, phase_handlers,
                   tasks, cleanup_handlers, metrics_errors, tg_dependencies,
                   tg_weights, caller, tstate, cancel, cleanup, report,
                   setup_calls, cancel_runs, cleanup_runs>>
    /\ scope_elapsed' = 0
    /\ UNCHANGED elapsed
    /\ UNCHANGED outsideShutdown

\* a handler coroutine returns
handler_return(h) ==
    /\ hstate[h] = "running"
    /\ hstate' = [hstate EXCEPT ![h] = "done"]
    /\ UNCHANGED <<shutdown_in_progress, shutdown_event, context,
                   phase_handlers, tasks, cleanup_handlers, metrics_errors,
                   tg_dependencies, tg_weights, caller, pc, tstate, cancel,
                   cleanup, report, setup_calls, phase_runs, cancel_runs,
                   cleanup_runs>>
    /\ UNCHANGED <<elapsed, scope_elapsed>>
    /\ UNCHANGED outsideShutdown

\* a handler coroutine raises an Exception
handler_raise(h) ==
    /\ hstate[h] = "running"
    /\ hstate' = [hstate EXCEPT ![h] = "raised"]
    /\ UNCHANGED <<shutdown_in_progress, shutdown_event, context,
                   phase_handlers, tasks, cleanup_handlers, metrics_errors,
                   tg_dependencies, tg_weights, caller, pc, tstate, cancel,
                   cleanup, report, setup_calls, phase_runs, cancel_runs,
                   cleanup_runs>>
    /\ UNCHANGED <<elapsed, scope_elapsed>>
    /\ UNCHANGED outsideShutdown

\* where shutdown() goes after _run_phase(phase) has returned
AfterPhase(p, i) ==
    IF p = "CANCEL_TASKS" THEN [at |-> "cancel_tasks", i |-> i]
    ELSE IF p = "CLEANUP_RESOURCES" THEN [at |-> "cleanup_resources", i |-> i]
    ELSE [at |-> "loop", i |-> i + 1]

CurrentHandlers == phase_handlers[context.phase]

\* the gather of the current phase is still pending
GatherPending ==
    /\ \E h \in CurrentHandlers : hstate[h] = "running"
    /\ \A h \in CurrentHandlers : hstate[h] # "raised"

\* _run_phase: every handler returned, "context.completed_phases.add(phase)"
phase_complete ==
    /\ pc.at = "run_phase"
    /\ \A h \in CurrentHandlers : hstate[h] = "done"
    /\ context' = [context EXCEPT !.completed_phases = @ \cup {context.phase}]
    /\ pc' = AfterPhase(context.phase, pc.i)
    /\ UNCHANGED <<shutdown_in_progress, shutdown_event, phase_handlers,
                   tasks, cleanup_handlers, metrics_errors, tg_dependencies,
                   tg_weights, caller, hstate, tstate, cancel, cleanup,
                   report, setup_calls, phase_runs, cancel_runs, cleanup_runs>>
    /\ UNCHANGED <<elapsed, scope_elapsed>>
    /\ UNCHANGED outsideShutdown

\* an except clause that marks the phase complete all the same
phase_error_completes ==
    /\ pc.at = "run_phase"
    /\ \E h \in CurrentHandlers : hstate[h] = "raised"
    /\ context' = [context EXCEPT
           !.errors = Append(@, [kind |-> "phase_error", phase |-> context.phase]),
           !.completed_phases = @ \cup {context.phase}]
    /\ metrics_errors' = IncErrors(metrics_errors, "phase_error", 1)
    /\ pc' = AfterPhase(context.phase, pc.i)
    /\ UNCHANGED <<shutdown_in_progress, shutdown_event, phase_handlers,
                   tasks, cleanup_handlers, tg_dependencies, tg_weights,
                   caller, hstate, tstate, cancel, cleanup, report,
                   setup_calls, phase_runs, cancel_runs, cleanup_runs>>
    /\ UNCHANGED <<elapsed, scope_elapsed>>
    /\ UNCHANGED outsideShutdown

\* _run_phase, "except Exception as e": gather (return_exceptions=False) hands
\* the first exception to its awaiter at once and leaves the other handlers
\* running; the phase is not marked complete.
phase_error ==
    /\ pc.at = "run_phase"
    /\ \E h \in CurrentHandlers : hstate[h] = "raised"
    /\ context' = [context EXCEPT
           !.errors = Append(@, [kind |-> "phase_error", phase |-> context.phase])]
    /\ metrics_errors' = IncErrors(metrics_errors, "phase_error", 1)
    /\ pc' = AfterPhase(context.phase, pc.i)
    /\ UNCHANGED <<shutdown_in_progress, shutdown_event, phase_handlers,
                   tasks, cleanup_handlers, tg_dependencies, tg_weights,
                   caller, hstate, tstate, cancel, cleanup, report,
                   setup_calls, phase_runs, cancel_runs, cleanup_runs>>
    /\ UNCHANGED <<elapsed, scope_elapsed>>
    /\ UNCHANGED outsideShutdown

\* _run_phase without "async with asyncio.timeout(timeout)"
phase_timeout_missing == pc.at = "run_phase" /\ FALSE /\ UNCHANGED vars

\* _run_phase, "except asyncio.TimeoutError": asyncio.timeout cancels the
\* gather, which cancels the handlers still running; only the metric is
\* incremented, context.errors is left alone.
phase_timeout ==
    /\ pc.at = "run_phase"
    /\ GatherPending
    /\ hstate' = [h \in Handlers |->
                     IF h \in CurrentHandlers /\ hstate[h] = "running"
                     THEN "cancelled" ELSE hstate[h]]
    /\ metrics_errors' = IncErrors(metrics_errors, "phase_timeout", 1)
    /\ pc' = AfterPhase(context.phase, pc.i)
    /\ UNCHANGED <<shutdown_in_progress, shutdown_event, context,
                   phase_handlers, tasks, cleanup_handlers, tg_dependencies,
                   tg_weights, caller, tstate, cancel, cleanup, report,
                   setup_calls, phase_runs, cancel_runs, cleanup_runs>>
    /\ UNCHANGED <<elapsed, scope_elapsed>>
    /\ UNCHANGED outsideShutdown


(***************************************************************************)
(* GracefulShutdown._cancel_tasks_by_priority.                             *)
(***************************************************************************)
NoCancel == [prio_i |-> 0, pending |-> <<>>, batch |-> {}]

TaskDone(t) == tstate[t] \in {"done", "cancelled", "failed"}

\* a tracked task finishes by itself; the model lets it do so from the moment
\* _run_phase(CANCEL_TASKS) has returned, the first time task.done() matters
task_complete(t) ==
    /\ tasks[t] # "none"
    /\ pc.at \in {"cancel_tasks", "cancelling"}
    /\ tstate[t] = "live"
    /\ tstate' = [tstate EXCEPT ![t] = "done"]
    /\ UNCHANGED <<shutdown_in_progress, shutdown_event, context,
                   phase_handlers, tasks, cleanup_handlers, metrics_errors,
                   tg_dependencies, tg_weights, caller, pc, hstate, cancel,
                   cleanup, report, setup_calls, phase_runs, cancel_runs,
                   cleanup_runs>>
    /\ UNCHANGED <<elapsed, scope_elapsed>>
    /\ UNCHANGED outsideShutdown

\* shutdown(): "if phase == CANCEL_TASKS: await self._cancel_tasks_by_priority()"
cancel_tasks_begin ==
    /\ pc.at = "cancel_tasks"
    /\ cancel' = NoCancel
    /\ cancel_runs' = cancel_runs + 1
    /\ pc' = [pc EXCEPT !.at = "cancelling"]
    /\ UNCHANGED <<shutdown_in_progress, shutdown_event, context,
                   phase_handlers, tasks, cleanup_handlers, metrics_errors,
                   tg_dependencies, tg_weights, caller, hstate, tstate,
                   cleanup, report, setup_calls, phase_runs, cleanup_runs>>
    /\ UNCHANGED <<elapsed, scope_elapsed>>
    /\ UNCHANGED outsideShutdown

\* a loop over the tiers that starts with the last one of TaskPriority
cancel_next_tier_reversed ==
    /\ pc.at = "cancelling"
    /\ cancel.batch = {} /\ cancel.pending = <<>>
    /\ cancel.prio_i < Len(TaskPriority)
    /\ \E order \in Permutations({t \in Tasks : tasks[t] = TaskPriority[Len(TaskPriority) - cancel.prio_i]}) :
           cancel' = [prio_i |-> cancel.prio_i + 1, pending |-> order, batch |-> {}]
    /\ UNCHANGED <<shutdown_in_progress, shutdown_event, context,
                   phase_handlers, tasks, cleanup_handlers, metrics_errors,
                   tg_dependencies, tg_weights, caller, pc, hstate, tstate,
                   cleanup, report, setup_calls, phase_runs, cancel_runs,
                   cleanup_runs>>
    /\ UNCHANGED <<elapsed, scope_elapsed>>
    /\ UNCHANGED outsideShutdown

\* "for priority in TaskPriority: tasks = [t for t in self._tasks if
\* t.priority == priority]": the list follows the iteration order of the set
cancel_next_tier ==
    /\ pc.at = "cancelling"
    /\ cancel.batch = {} /\ cancel.pending = <<>>
    /\ cancel.prio_i < Len(TaskPriority)
    /\ \E order \in Permutations({t \in Tasks : tasks[t] = TaskPriority[cancel.prio_i + 1]}) :
           cancel' = [prio_i |-> cancel.prio_i + 1, pending |-> order, batch |-> {}]
    /\ UNCHANGED <<shutdown_in_progress, shutdown_event, context,
                   phase_handlers, tasks, cleanup_handlers, metrics_errors,
                   tg_dependencies, tg_weights, caller, pc, hstate, tstate,
                   cleanup, report, setup_calls, phase_runs, cancel_runs,
                   cleanup_runs>>
    /\ UNCHANGED <<elapsed, scope_elapsed>>
    /\ UNCHANGED outsideShutdown

Min(a, b) == IF a < b THEN a ELSE b

\* "batch = tasks[i:i + self._batch_size]" and the start of the gather of
\* _cancel_single_task: a task that is done is skipped, the others get
\* task.cancel() and are awaited.
cancel_start_batch ==
    /\ pc.at = "cancelling"
    /\ cancel.batch = {} /\ cancel.pending # <<>>
    /\ LET n == Min(batch_size, Len(cancel.pending))
           batch == {cancel.pending[k] : k \in 1..n}
       IN  /\ cancel' = [cancel EXCEPT !.batch = batch,
                                       !.pending = SubSeq(@, n + 1, Len(@))]
           /\ tstate' = [t \in Tasks |->
                            IF t \in batch /\ ~TaskDone(t) THEN "cancelling"
                            ELSE tstate[t]]
    /\ UNCHANGED <<shutdown_in_progress, shutdown_event, context,
                   phase_handlers, tasks, cleanup_handlers, metrics_errors,
                   tg_dependencies, tg_weights, caller, pc, hstate, cleanup,
                   report, setup_calls, phase_runs, cancel_runs, cleanup_runs>>
    /\ scope_elapsed' = 0
    /\ UNCHANGED elapsed
    /\ UNCHANGED outsideShutdown

\* _cancel_single_task: "await tracked.task" raises CancelledError
task_acknowledge(t) ==
    /\ tstate[t] = "cancelling"
    /\ tstate' = [tstate EXCEPT ![t] = "cancelled"]
    /\ UNCHANGED <<shutdown_in_progress, shutdown_event, context,
                   phase_handlers, tasks, cleanup_handlers, metrics_errors,
                   tg_dependencies, tg_weights, caller, pc, hstate, cancel,
                   cleanup, report, setup_calls, phase_runs, cancel_runs,
                   cleanup_runs>>
    /\ UNCHANGED <<elapsed, scope_elapsed>>
    /\ UNCHANGED outsideShutdown

\* _cancel_single_task: "await tracked.task" raises another Exception, which
\* is logged and counted by the coroutine awaiting it, if one still does
task_fail(t) ==
    /\ tstate[t] = "cancelling"
    /\ tstate' = [tstate EXCEPT ![t] = "failed"]
    /\ metrics_errors' =
           IF t \in cancel.batch THEN IncErrors(metrics_errors, "task_error", 1)
           ELSE metrics_errors
    /\ UNCHANGED <<shutdown_in_progress, shutdown_event, context,
                   phase_handlers, tasks, cleanup_handlers, tg_dependencies,
                   tg_weights, caller, pc, hstate, cancel, cleanup, report,
                   setup_calls, phase_runs, cancel_runs, cleanup_runs>>
    /\ UNCHANGED <<elapsed, scope_elapsed>>
    /\ UNCHANGED outsideShutdown

\* the gather of the batch returned; _handle_batch_results finds no failure,
\* because _cancel_single_task returns None whatever the task did
batch_complete ==
    /\ pc.at = "cancelling"
    /\ cancel.batch # {}
    /\ \A t \in cancel.batch : tstate[t] # "cancelling"
    /\ cancel' = [cancel EXCEPT !.batch = {}]
    /\ UNCHANGED <<shutdown_in_progress, shutdown_event, context,
                   phase_handlers, tasks, cleanup_handlers, metrics_errors,
                   tg_dependencies, tg_weights, caller, pc, hstate, tstate,
                   cleanup, report, setup_calls, phase_runs, cancel_runs,
                   cleanup_runs>>
    /\ UNCHANGED <<elapsed, scope_elapsed>>
    /\ UNCHANGED outsideShutdown

\* a timeout that ends the whole of _cancel_tasks_by_priority
batch_timeout_aborts ==
    /\ pc.at = "cancelling"
    /\ \E t \in cancel.batch : tstate[t] = "cancelling"
    /\ cancel' = [cancel EXCEPT !.batch = {}]
    /\ pc' = [at |-> "loop", i |-> pc.i + 1]
    /\ metrics_errors' = IncErrors(metrics_errors, "batch_processing", 1)
    /\ UNCHANGED <<shutdown_in_progress, shutdown_event, context,
                   phase_handlers, tasks, cleanup_handlers, tg_dependencies,
                   tg_weights, caller, hstate, tstate, cleanup, report,
                   setup_calls, phase_runs, cancel_runs, cleanup_runs>>
    /\ UNCHANGED <<elapsed, scope_elapsed>>
    /\ UNCHANGED outsideShutdown

\* asyncio.timeout(self._task_timeouts[priority]) expired: "except Exception
\* as e: await self._handle_batch_error(e, priority)" counts it in the metric
\* (and in _performance_stats); context.errors is left alone
batch_timeout ==
    /\ pc.at = "cancelling"
    /\ \E t \in cancel.batch : tstate[t] = "cancelling"
    /\ cancel' = [cancel EXCEPT !.batch = {}]
    /\ metrics_errors' = IncErrors(metrics_errors, "batch_processing", 1)
    /\ UNCHANGED <<shutdown_in_progress, shutdown_event, context,
                   phase_handlers, tasks, cleanup_handlers, tg_dependencies,
                   tg_weights, caller, pc, hstate, tstate, cleanup, report,
                   setup_calls, phase_runs, cancel_runs, cleanup_runs>>
    /\ UNCHANGED <<elapsed, scope_elapsed>>
    /\ UNCHANGED outsideShutdown

\* the last tier is done: _cancel_tasks_by_priority returns
cancel_tasks_end ==
    /\ pc.at = "cancelling"
    /\ cancel.batch = {} /\ cancel.pending = <<>>
    /\ cancel.prio_i = Len(TaskPriority)
    /\ pc' = [at |-> "loop", i |-> pc.i + 1]
    /\ UNCHANGED <<shutdown_in_progress, shutdown_event, context,
                   phase_handlers, tasks, cleanup_handlers, metrics_errors,
                   tg_dependencies, tg_weights, caller, hstate, tstate,
                   cancel, cleanup, report, setup_calls, phase_runs,
                   cancel_runs, cleanup_runs>>
    /\ UNCHANGED <<elapsed, scope_elapsed>>
    /\ UNCHANGED outsideShutdown


(***************************************************************************)
(* GracefulShutdown._run_cleanup_handlers.                                 *)
(***************************************************************************)
\* the name "sem" is bound to no semaphore
NoSemaphore == [bound |-> FALSE, value |-> 0]

NoCleanup == [groups |-> <<>>, gi |-> 0, attempted |-> <<>>, invoked |-> {},
              concurrency |-> 0, sem |-> NoSemaphore]

\* ShutdownConfig.max_concurrent_cleanups as the model runs it
max_concurrent_cleanups == 2

\* _calculate_optimal_concurrency(resources): "max(1, int(base_concurrency *
\* min_weight))" with base_concurrency = min(len(resources),
\* max_concurrent_cleanups).  _get_resource_type gives "memory", of weight
\* 1.0, for every name without one of the prefixes db_, sql_, redis_,
\* http_, api_, net_, file_, fs_, as the names of Nodes are.
calculate_optimal_concurrency(resources) ==
    LET base_concurrency == Min(Len(resources), max_concurrent_cleanups)
    IN  IF base_concurrency < 1 THEN 1 ELSE base_concurrency

\* what "async with asyncio.Semaphore(value) as sem" binds sem to:
\* Semaphore.__aenter__ acquires a permit and returns None
Semaphore_aenter(value) == NoSemaphore

\* _can_cleanup_concurrently(resource, current_group) is called but defined
\* nowhere in the repository.  Taken from the cleanup ordering of the
\* specification: a resource joins a group unless a dependency edge links it
\* to a member of the group.
can_cleanup_concurrently(deps, resource, current_group) ==
    \A g \in Range(current_group) : g \notin deps[resource] /\ resource \notin deps[g]

\* _group_resources_for_cleanup(resources): st = [groups, current_group]
RECURSIVE group_loop(_, _, _, _)
group_loop(deps, resources, i, st) ==
    IF i > Len(resources) THEN st
    ELSE group_loop(deps, resources, i + 1,
             IF can_cleanup_concurrently(deps, resources[i], st.current_group)
             THEN [st EXCEPT !.current_group = Append(@, resources[i])]
             ELSE [groups |-> IF st.current_group # <<>>
                              THEN Append(st.groups, st.current_group)
                              ELSE st.groups,
                   current_group |-> <<resources[i]>>])

group_resources_for_cleanup(deps, resources) ==
    LET st == group_loop(deps, resources, 1, [groups |-> <<>>, current_group |-> <<>>])
    IN  IF st.current_group # <<>> THEN Append(st.groups, st.current_group)
        ELSE st.groups

\* shutdown(): "elif phase == CLEANUP_RESOURCES: await
\* self._run_cleanup_handlers()", up to the first gather.  A ValueError of
\* get_cleanup_order leaves the phase loop through "except Exception" of
\* shutdown(), which counts it and goes to the finally clause.
run_cleanup_handlers_begin ==
    /\ pc.at = "cleanup_resources"
    /\ cleanup_runs' = cleanup_runs + 1
    /\ \E so \in Permutations(Nodes) :
           LET r == get_cleanup_order(tg_dependencies, tg_weights, so)
           IN  IF r.err # NoNode
               THEN /\ metrics_errors' = IncErrors(metrics_errors, "shutdown_error", 1)
                    /\ pc' = [pc EXCEPT !.at = "finalize"]
                    /\ cleanup' = NoCleanup
               ELSE /\ cleanup' = [groups |-> group_resources_for_cleanup(tg_dependencies, r.order),
                                   gi |-> 1, attempted |-> <<>>, invoked |-> {},
                                   concurrency |-> 0, sem |-> NoSemaphore]
                    /\ pc' = [pc EXCEPT !.at = "cleanup_groups"]
                    /\ UNCHANGED metrics_errors
    /\ UNCHANGED <<shutdown_in_progress, shutdown_event, context,
                   phase_handlers, tasks, cleanup_handlers, tg_dependencies,
                   tg_weights, caller, hstate, tstate, cancel, report,
                   setup_calls, phase_runs, cancel_runs>>
    /\ UNCHANGED <<elapsed, scope_elapsed>>
    /\ UNCHANGED outsideShutdown

\* One turn of "for group in groups".  "async with asyncio.Semaphore(n) as
\* sem" binds sem to None (Semaphore.__aenter__ returns None), so in every
\* _cleanup_single_resource_with_semaphore the statement "async with sem"
\* raises TypeError before the resource's handler is reached; gather
\* (return_exceptions=True) collects the exceptions and the loop goes on.
\* attempted lists the resources whose cleanup task was started, in order.
run_cleanup_group ==
    /\ pc.at = "cleanup_groups"
    /\ cleanup.gi <= Len(cleanup.groups)
    /\ cleanup' = [cleanup EXCEPT
           !.concurrency = calculate_optimal_concurrency(cleanup.groups[cleanup.gi]),
           !.sem = Semaphore_aenter(calculate_optimal_concurrency(cleanup.groups[cleanup.gi])),
           !.attempted = @ \o Restrict(cleanup.groups[cleanup.gi], cleanup_handlers),
           !.gi = @ + 1]
    /\ UNCHANGED <<shutdown_in_progress, shutdown_event, context,
                   phase_handlers, tasks, cleanup_handlers, metrics_errors,
                   tg_dependencies, tg_weights, caller, pc, hstate, tstate,
                   cancel, report, setup_calls, phase_runs, cancel_runs,
                   cleanup_runs>>
    /\ UNCHANGED <<elapsed, scope_elapsed>>
    /\ UNCHANGED outsideShutdown

\* after the last group: _update_timeout_statistics(timings) with no timing
\* recorded, and _run_cleanup_handlers returns
run_cleanup_handlers_end ==
    /\ pc.at = "cleanup_groups"
    /\ cleanup.gi > Len(cleanup.groups)
    /\ pc' = [at |-> "loop", i |-> pc.i + 1]
    /\ UNCHANGED <<shutdown_in_progress, shutdown_event, context,
                   phase_handlers, tasks, cleanup_handlers, metrics_errors,
                   tg_dependencies, tg_weights, caller, hstate, tstate,
                   cancel, cleanup, report, setup_calls, phase_runs,
                   cancel_runs, cleanup_runs>>
    /\ UNCHANGED <<elapsed, scope_elapsed>>
    /\ UNCHANGED outsideShutdown

(***************************************************************************)
(* The time shutdown() takes.  One time unit is 5 seconds.  Time passes     *)
(* only while shutdown() is suspended in an await; the awaits that can last *)
(* are the gather of the phase handlers, under asyncio.timeout of the       *)
(* phase, and the gather of a cancellation batch, under asyncio.timeout of  *)
(* its tier.  context.deadlines is computed and read by no code.            *)
(***************************************************************************)
\* ShutdownConfig.phase_timeouts as the model runs it: one unit for each phase
PhaseTimeout == 1

phase_timeouts == [p \in Phases |-> PhaseTimeout]

\* self._task_timeouts: 30, 20, 10 and 5 seconds
task_timeouts == [prio \in Priorities |->
                     CASE prio = "CRITICAL" -> 6
                       [] prio = "HIGH" -> 4
                       [] prio = "MEDIUM" -> 2
                       [] prio = "LOW" -> 1]

\* the gather of the current cancellation batch is still pending
BatchPending == \E t \in cancel.batch : tstate[t] = "cancelling"

\* the asyncio.timeout scope in which shutdown() is suspended, if any
ScopeTimeout ==
    IF pc.at = "run_phase" /\ GatherPending
    THEN phase_timeouts[context.phase]
    ELSE IF pc.at = "cancelling" /\ BatchPending
    THEN task_timeouts[TaskPriority[cancel.prio_i]]
    ELSE 0

\* the timer of the current asyncio.timeout scope has expired
TimeoutDue == scope_elapsed >= ScopeTimeout

\* a unit of time passes while shutdown() waits inside an asyncio.timeout scope
time_passes ==
    /\ scope_elapsed < ScopeTimeout
    /\ elapsed' = elapsed + 1
    /\ scope_elapsed' = scope_elapsed + 1
    /\ UNCHANGED <<shutdown_in_progress, shutdown_event, context,
                   phase_handlers, tasks, cleanup_handlers, metrics_errors,
                   tg_dependencies, tg_weights, caller, pc, hstate, tstate,
                   cancel, cleanup, report, setup_calls, phase_runs,
                   cancel_runs, cleanup_runs>>
    /\ UNCHANGED outsideShutdown

(***************************************************************************)
(* GracefulShutdown._finalize_shutdown, the finally clause of shutdown().  *)
(***************************************************************************)
NoReport == [produced |-> FALSE, completed_phases |-> {}, error_count |-> 0]

\* a finally clause that clears the event once shutdown() is over
finalize_shutdown_clears_event ==
    /\ \/ pc.at = "finalize"
       \/ pc.at = "loop" /\ pc.i > Len(ShutdownPhase)
    /\ report' = [produced |-> TRUE,
                  completed_phases |-> context.completed_phases,
                  error_count |-> Len(context.errors)]
    /\ metrics_errors' =
           IF context.errors # <<>>
           THEN IncErrors(metrics_errors, "total_errors", Len(context.errors))
           ELSE metrics_errors
    /\ pc' = [pc EXCEPT !.at = "done"]
    /\ caller' = [c \in Callers |-> IF caller[c] = "running" THEN "returned" ELSE caller[c]]
    /\ shutdown_event' = FALSE
    /\ UNCHANGED <<shutdown_in_progress, context,
                   phase_handlers, tasks, cleanup_handlers, tg_dependencies,
                   tg_weights, hstate, tstate, cancel, cleanup, setup_calls,
                   phase_runs, cancel_runs, cleanup_runs>>
    /\ UNCHANGED <<elapsed, scope_elapsed>>
    /\ UNCHANGED outsideShutdown

finalize_shutdown ==
    /\ \/ pc.at = "finalize"
       \/ pc.at = "loop" /\ pc.i > Len(ShutdownPhase)
    /\ report' = [produced |-> TRUE,
                  completed_phases |-> context.completed_phases,
                  error_count |-> Len(context.errors)]
    /\ metrics_errors' =
           IF context.errors # <<>>
           THEN IncErrors(metrics_errors, "total_errors", Len(context.errors))
           ELSE metrics_errors
    /\ pc' = [pc EXCEPT !.at = "done"]
    /\ caller' = [c \in Callers |-> IF caller[c] = "running" THEN "returned" ELSE caller[c]]
    /\ UNCHANGED <<shutdown_in_progress, shutdown_event, context,
                   phase_handlers, tasks, cleanup_handlers, tg_dependencies,
                   tg_weights, hstate, tstate, cancel, cleanup, setup_calls,
                   phase_runs, cancel_runs, cleanup_runs>>
    /\ UNCHANGED <<elapsed, scope_elapsed>>
    /\ UNCHANGED outsideShutdown

(***************************************************************************)
(* GracefulShutdown.register_resource_dependency and _update_cleanup_order. *)
(***************************************************************************)
\* register_resource_dependency calls made
MaxRegistrations == 3

\* visit(resource) of _update_cleanup_order; st = [keys, visited, order, err].
\* self._dependency_graph is a defaultdict(set): reading the entry of a
\* resource that has none inserts the key.  The set of dependencies is
\* iterated in the order so.
RECURSIVE uco_visit(_, _, _, _, _), uco_visit_deps(_, _, _, _, _, _)
uco_visit(g, so, resource, temp, st) ==
    IF st.err # "none" THEN st
    ELSE IF resource \in temp THEN [st EXCEPT !.err = "ValueError"]
    ELSE IF resource \in st.visited THEN st
    ELSE LET st1 == [st EXCEPT !.keys = IF resource \in Range(@) THEN @
                                        ELSE Append(@, resource)]
             st2 == uco_visit_deps(g, so, Restrict(so, g[resource]), 1,
                                   temp \cup {resource}, st1)
         IN  IF st2.err # "none" THEN st2
             ELSE [st2 EXCEPT !.visited = @ \cup {resource},
                              !.order = Append(@, resource)]

uco_visit_deps(g, so, ds, i, temp, st) ==
    IF i > Len(ds) \/ st.err # "none" THEN st
    ELSE uco_visit_deps(g, so, ds, i + 1, temp, uco_visit(g, so, ds[i], temp, st))

\* "for resource in self._dependency_graph": the iterator over the dict's keys
\* raises RuntimeError("dictionary changed size during iteration") at its
\* next step, the one that ends the loop included, once a key was inserted.
RECURSIVE uco_loop(_, _, _, _, _)
uco_loop(g, so, keys, i, st) ==
    IF st.err # "none" THEN st
    ELSE IF Len(st.keys) # Len(keys) THEN [st EXCEPT !.err = "RuntimeError"]
    ELSE IF i > Len(keys) THEN st
    ELSE uco_loop(g, so, keys, i + 1,
                  IF keys[i] \in st.visited THEN st
                  ELSE uco_visit(g, so, keys[i], {}, st))

\* _update_cleanup_order: [keys, visited, order, err]
update_cleanup_order(g, keys, so) ==
    uco_loop(g, so, keys, 1,
             [keys |-> keys, visited |-> {}, order |-> <<>>, err |-> "none"])

\* register_resource_dependency(resource, depends_on): the graph is updated
\* first; an exception of _update_cleanup_order reaches the caller, and then
\* self._cleanup_order keeps its old value.
register_resource_dependency(resource, depends_on) ==
    /\ register_calls < MaxRegistrations
    /\ register_calls' = register_calls + 1
    /\ LET g == [dependency_graph EXCEPT ![resource] = @ \cup depends_on]
           keys == IF resource \in Range(dependency_keys) THEN dependency_keys
                   ELSE Append(dependency_keys, resource)
       IN  \E so \in Permutations(Nodes) :
               LET r == update_cleanup_order(g, keys, so)
               IN  /\ dependency_graph' = g
                   /\ dependency_keys' = r.keys
                   /\ cleanup_order' = IF r.err = "none" THEN r.order
                                       ELSE cleanup_order
                   /\ register_outcome' = IF r.err = "none" THEN "returned"
                                          ELSE r.err
    /\ UNCHANGED <<shutdownVars, appVars, componentVars>>

(***************************************************************************)
(* Application: src/main.py.                                               *)
(***************************************************************************)
\* stop_after_attempt(3) of self._retry_config
MaxAttempts == 3
\* init_services() and startup() calls made
MaxAppCalls == 2

NoCall == [at |-> "idle", call |-> "none", order |-> <<>>, i |-> 0, attempt |-> 0]

NoOutcome == [call |-> "none", result |-> "none", failed |-> NoNode]

\* no _resolve_dependencies() call was made yet
NoResolve == [called |-> FALSE, raised |-> FALSE, named |-> {}, order |-> <<>>]

\* visit(service) of _resolve_dependencies; st = [visited, order, err, named],
\* err for the ValueError("Circular dependency detected"), named for the
\* services that the message of the error names: it names none
RECURSIVE rd_visit(_, _, _, _, _), rd_visit_deps(_, _, _, _, _, _)
rd_visit(g, so, service, temp_mark, st) ==
    IF st.err THEN st
    ELSE IF service \in temp_mark THEN [st EXCEPT !.err = TRUE]
    ELSE IF service \in st.visited THEN st
    ELSE LET st2 == rd_visit_deps(g, so, Restrict(so, g[service]), 1,
                                  temp_mark \cup {service}, st)
         IN  IF st2.err THEN st2
             ELSE [st2 EXCEPT !.visited = @ \cup {service},
                              !.order = Append(@, service)]

rd_visit_deps(g, so, ds, i, temp_mark, st) ==
    IF i > Len(ds) \/ st.err THEN st
    ELSE rd_visit_deps(g, so, ds, i + 1, temp_mark,
                       rd_visit(g, so, ds[i], temp_mark, st))

\* "for service in self._services: if service not in visited: visit(service)"
RECURSIVE rd_loop(_, _, _, _, _)
rd_loop(g, so, svcs, i, st) ==
    IF i > Len(svcs) \/ st.err THEN st
    ELSE rd_loop(g, so, svcs, i + 1,
                 IF svcs[i] \in st.visited THEN st
                 ELSE rd_visit(g, so, svcs[i], {}, st))

\* _resolve_dependencies returning its order reversed
resolve_dependencies_reversed(svcs, g, so) ==
    LET r == rd_loop(g, so, svcs, 1, [visited |-> {}, order |-> <<>>, err |-> FALSE,
                             named |-> {}])
    IN  [r EXCEPT !.order = Reverse(r.order)]

\* _resolve_dependencies: [visited, order, err]
resolve_dependencies(svcs, g, so) ==
    rd_loop(g, so, svcs, 1, [visited |-> {}, order |-> <<>>, err |-> FALSE,
                             named |-> {}])

\* The registration of a service with its dependencies.  The code fills
\* neither self._services nor self._dependency_graph (startup() hands the
\* services to a Container that the repository does not define); taken from
\* the specification's registerService(name, deps, handle).  Services are
\* registered in any order, each once, before the first call.
registerService(name, deps) ==
    /\ app_pc.at = "idle" /\ app_calls = 0
    /\ name \notin Range(services)
    /\ services' = Append(services, name)
    /\ app_dependency_graph' = [app_dependency_graph EXCEPT ![name] = deps]
    /\ UNCHANGED <<startup_order, startup_complete, sstate, app_pc,
                   app_outcome, exhausted, retried, app_calls>>
    /\ UNCHANGED <<resolve_outcome, shutdownVars, dependencyVars, componentVars>>

\* the service that the running call is initialising
CurrentService == app_pc.order[app_pc.i]

\* init_services(), up to its first await.  "except Exception" takes the
\* ValueError of _resolve_dependencies: it is counted and the call returns.
init_services ==
    /\ app_pc.at = "idle"
    /\ app_calls < MaxAppCalls
    /\ app_calls' = app_calls + 1
    /\ \E so \in Permutations(Nodes) :
           LET r == resolve_dependencies(services, app_dependency_graph, so)
           IN  /\ resolve_outcome' =
                       [called |-> TRUE, raised |-> r.err, named |-> r.named,
                        order |-> IF r.err THEN <<>> ELSE r.order]
               /\ IF r.err
                  THEN /\ app_pc' = NoCall
                       /\ app_outcome' = [call |-> "init_services",
                                          result |-> "returned",
                                          failed |-> NoNode]
                  ELSE /\ app_pc' = [at |-> "call", call |-> "init_services",
                                     order |-> r.order, i |-> 1, attempt |-> 0]
                       /\ app_outcome' = NoOutcome
    /\ UNCHANGED <<services, app_dependency_graph, startup_order,
                   startup_complete, sstate, exhausted, retried>>
    /\ UNCHANGED <<shutdownVars, dependencyVars, componentVars>>

\* startup(), up to its first await of _init_service: "for service in
\* self._startup_order"
startup ==
    /\ app_pc.at = "idle"
    /\ app_calls < MaxAppCalls
    /\ app_calls' = app_calls + 1
    /\ app_pc' = [at |-> "call", call |-> "startup", order |-> startup_order,
                  i |-> 1, attempt |-> 0]
    /\ app_outcome' = NoOutcome
    /\ UNCHANGED <<services, app_dependency_graph, startup_order,
                   startup_complete, sstate, exhausted, retried>>
    /\ UNCHANGED <<resolve_outcome, shutdownVars, dependencyVars, componentVars>>

\* _init_service(name), one attempt of the retry decorator: "await
\* service.start()" is reached
init_service_attempt ==
    /\ app_pc.at = "call"
    /\ app_pc.i <= Len(app_pc.order)
    /\ sstate' = [sstate EXCEPT ![CurrentService] = "starting"]
    /\ app_pc' = [app_pc EXCEPT !.at = "await", !.attempt = @ + 1]
    /\ UNCHANGED <<services, app_dependency_graph, startup_order,
                   startup_complete, app_outcome, exhausted, retried, app_calls>>
    /\ UNCHANGED <<resolve_outcome, shutdownVars, dependencyVars, componentVars>>

\* service.start() returned: _init_service returns; init_services appends
\* the service to self._startup_order
start_returns ==
    /\ app_pc.at = "await"
    /\ sstate' = [sstate EXCEPT ![CurrentService] = "started"]
    /\ exhausted' = exhausted \ {CurrentService}
    /\ startup_order' = IF app_pc.call = "init_services"
                        THEN Append(startup_order, CurrentService)
                        ELSE startup_order
    /\ app_pc' = [app_pc EXCEPT !.at = "call", !.i = @ + 1, !.attempt = 0]
    /\ UNCHANGED <<services, app_dependency_graph, startup_complete,
                   app_outcome, retried, app_calls>>
    /\ UNCHANGED <<resolve_outcome, shutdownVars, dependencyVars, componentVars>>

\* service.start() raised: _init_service re-raises and the retry decorator
\* calls it again, up to MaxAttempts attempts in all; then the error leaves
\* _init_service.  init_services() counts it and returns; startup() hands it
\* to handle_error and raises it.
start_raises ==
    /\ app_pc.at = "await"
    /\ sstate' = [sstate EXCEPT ![CurrentService] = "failed"]
    /\ retried' = retried \cup {CurrentService}
    /\ IF app_pc.attempt < MaxAttempts
       THEN /\ app_pc' = [app_pc EXCEPT !.at = "call"]
            /\ UNCHANGED <<exhausted, app_outcome>>
       ELSE /\ exhausted' = exhausted \cup {CurrentService}
            /\ app_pc' = NoCall
            /\ app_outcome' =
                   [call |-> app_pc.call,
                    result |-> IF app_pc.call = "init_services" THEN "returned"
                               ELSE "raised",
                    failed |-> CurrentService]
    /\ UNCHANGED <<services, app_dependency_graph, startup_order,
                   startup_complete, app_calls>>
    /\ UNCHANGED <<resolve_outcome, shutdownVars, dependencyVars, componentVars>>

\* init_services(): the loop over services_order has ended
init_services_return ==
    /\ app_pc.at = "call" /\ app_pc.call = "init_services"
    /\ app_pc.i > Len(app_pc.order)
    /\ app_pc' = NoCall
    /\ app_outcome' = [call |-> "init_services", result |-> "returned",
                       failed |-> NoNode]
    /\ UNCHANGED <<services, app_dependency_graph, startup_order,
                   startup_complete, sstate, exhausted, retried, app_calls>>
    /\ UNCHANGED <<resolve_outcome, shutdownVars, dependencyVars, componentVars>>

\* startup(): the loop over self._startup_order has ended,
\* "self._startup_complete.set()"
startup_return ==
    /\ app_pc.at = "call" /\ app_pc.call = "startup"
    /\ app_pc.i > Len(app_pc.order)
    /\ startup_complete' = TRUE
    /\ app_pc' = NoCall
    /\ app_outcome' = [call |-> "startup", result |-> "returned",
                       failed |-> NoNode]
    /\ UNCHANGED <<services, app_dependency_graph, startup_order, sstate,
                   exhausted, retried, app_calls>>
    /\ UNCHANGED <<resolve_outcome, shutdownVars, dependencyVars, componentVars>>

(***************************************************************************)
(* CircuitBreaker (src/src/core/circuit_breaker.py).  call() holds          *)
(* self._lock from its first line to its last, so the calls of one breaker  *)
(* run one after the other and each one is a single step.                   *)
(***************************************************************************)
FailureThreshold == 2
RecoveryTimeout == 2
HalfOpenMaxCalls == 3
MinSamples == 10
MaxClock == 4
MaxBreakerCalls == 6

CircuitState == {"CLOSED", "OPEN", "HALF_OPEN"}

\* CircuitConfig(): the dataclass has the three fields below and no
\* attribute "timeout"
CircuitConfig ==
    [failure_threshold |-> FailureThreshold,
     recovery_timeout |-> RecoveryTimeout,
     half_open_max_calls |-> HalfOpenMaxCalls,
     has_timeout |-> FALSE]

\* the config objects a breaker is built with: the default one, and an
\* object that also carries a timeout
Configs == {CircuitConfig, [CircuitConfig EXCEPT !.has_timeout = TRUE]}

CircuitStats == [total_calls |-> 0, failed_calls |-> 0, consecutive_failures |-> 0]

NoLastCall ==
    [state_before |-> "none", elapsed |-> 0, allowed_in |-> "none",
     invoked |-> FALSE, result |-> "none"]

\* CircuitBreaker(name, config)
CircuitBreaker_init(config) ==
    /\ ~cb_built
    /\ cb_built' = TRUE
    /\ cb_config' = config
    /\ cb_state' = "CLOSED"
    /\ cb_stats' = CircuitStats
    /\ half_open_calls' = 0
    /\ state_change_time' = now
    /\ response_times' = 0
    /\ half_open_invoked' = 0
    /\ UNCHANGED <<now, last_call, cb_calls>>
    /\ UNCHANGED outsideBreaker

\* _should_transition_to_half_open(): called by _should_allow_request and
\* defined nowhere; the recovery timeout has elapsed since the breaker opened
should_transition_to_half_open(config, t, changed) ==
    t - changed >= config.recovery_timeout

\* _should_allow_request(): the answer and the state it leaves
should_allow_request(config, state, hoc, t, changed) ==
    IF state = "CLOSED" THEN [allow |-> TRUE, state |-> state]
    ELSE IF state = "OPEN"
         THEN IF should_transition_to_half_open(config, t, changed)
              THEN [allow |-> TRUE, state |-> "HALF_OPEN"]
              ELSE [allow |-> FALSE, state |-> state]
         ELSE [allow |-> hoc < config.half_open_max_calls, state |-> state]

\* _get_adaptive_timeout(): with fewer than 10 response times it reads
\* self.config.timeout
get_adaptive_timeout(config, n) ==
    IF n < MinSamples
    THEN IF config.has_timeout THEN "timeout" ELSE "AttributeError"
    ELSE "timeout"

\* a success handler that leaves the count of consecutive failures alone
on_success_keeps_count(state, stats, hoc) ==
    LET s == [stats EXCEPT !.total_calls = @ + 1]
    IN  IF state = "HALF_OPEN"
        THEN [state |-> "CLOSED", stats |-> [s EXCEPT !.failed_calls = 0],
              half_open_calls |-> 0]
        ELSE [state |-> state, stats |-> s, half_open_calls |-> hoc]

\* _on_success()
on_success(state, stats, hoc) ==
    LET s == [stats EXCEPT !.total_calls = @ + 1, !.consecutive_failures = 0]
    IN  IF state = "HALF_OPEN"
        THEN [state |-> "CLOSED", stats |-> [s EXCEPT !.failed_calls = 0],
              half_open_calls |-> 0]
        ELSE [state |-> state, stats |-> s, half_open_calls |-> hoc]

\* a failure handler that counts the failure and never opens the breaker
on_failure_stays(config, state, stats, t, changed) ==
    [state |-> state,
     stats |-> [stats EXCEPT !.total_calls = @ + 1, !.failed_calls = @ + 1,
                             !.consecutive_failures = @ + 1],
     state_change_time |-> changed]

\* a failure handler that reopens a HALF_OPEN breaker and keeps the time of
\* the earlier opening
on_failure_keeps_time(config, state, stats, t, changed) ==
    LET s == [stats EXCEPT !.total_calls = @ + 1, !.failed_calls = @ + 1,
                           !.consecutive_failures = @ + 1]
    IN  IF state = "CLOSED" /\ s.consecutive_failures >= config.failure_threshold
        THEN [state |-> "OPEN", stats |-> s, state_change_time |-> t]
        ELSE IF state = "HALF_OPEN"
             THEN [state |-> "OPEN", stats |-> s, state_change_time |-> changed]
             ELSE [state |-> state, stats |-> s, state_change_time |-> changed]

\* _on_failure(error)
on_failure(config, state, stats, t, changed) ==
    LET s == [stats EXCEPT !.total_calls = @ + 1, !.failed_calls = @ + 1,
                           !.consecutive_failures = @ + 1]
    IN  IF state = "CLOSED" /\ s.consecutive_failures >= config.failure_threshold
        THEN [state |-> "OPEN", stats |-> s, state_change_time |-> t]
        ELSE IF state = "HALF_OPEN"
             THEN [state |-> "OPEN", stats |-> s, state_change_time |-> t]
             ELSE [state |-> state, stats |-> s, state_change_time |-> changed]

\* the ways the awaited func can end: it returns, it raises an Exception
\* (a timeout of _execute_with_timeout included), or the caller is cancelled
\* while it waits (CancelledError is not an Exception)
Outcomes == {"returned", "raised", "CancelledError"}

\* call(func)
call(outcome) ==
    /\ cb_built
    /\ cb_calls < MaxBreakerCalls
    /\ cb_calls' = cb_calls + 1
    /\ LET allow == should_allow_request(cb_config, cb_state, half_open_calls,
                                         now, state_change_time)
           to == get_adaptive_timeout(cb_config, response_times)
           failed == on_failure(cb_config, allow.state, cb_stats, now,
                                state_change_time)
           passed == on_success(allow.state, cb_stats, half_open_calls)
           hoi == IF cb_state = "OPEN" /\ allow.state = "HALF_OPEN"
                  THEN 0 ELSE half_open_invoked
           awaited == IF allow.state = "HALF_OPEN" THEN hoi + 1 ELSE hoi
           lc == [state_before |-> cb_state,
                  elapsed |-> now - state_change_time,
                  allowed_in |-> allow.state,
                  invoked |-> FALSE, result |-> "none"]
       IN  IF ~allow.allow
           THEN /\ outcome = "raised"
                /\ last_call' = [lc EXCEPT !.allowed_in = "none",
                                           !.result = "CircuitBreakerOpenError"]
                /\ UNCHANGED <<cb_state, cb_stats, half_open_calls,
                               state_change_time, response_times,
                               half_open_invoked>>
           ELSE IF to = "AttributeError"
           THEN /\ outcome = "raised"
                /\ last_call' = [lc EXCEPT !.result = "AttributeError"]
                /\ cb_state' = failed.state
                /\ cb_stats' = failed.stats
                /\ state_change_time' = failed.state_change_time
                /\ half_open_invoked' = hoi
                /\ UNCHANGED <<half_open_calls, response_times>>
           ELSE IF outcome = "returned"
           THEN /\ last_call' = [lc EXCEPT !.invoked = TRUE, !.result = outcome]
                /\ cb_state' = passed.state
                /\ cb_stats' = passed.stats
                /\ half_open_calls' = passed.half_open_calls
                /\ response_times' = Min(response_times + 1, MinSamples)
                /\ half_open_invoked' = awaited
                /\ UNCHANGED state_change_time
           ELSE IF outcome = "raised"
           THEN /\ last_call' = [lc EXCEPT !.invoked = TRUE, !.result = outcome]
                /\ cb_state' = failed.state
                /\ cb_stats' = failed.stats
                /\ state_change_time' = failed.state_change_time
                /\ half_open_invoked' = awaited
                /\ UNCHANGED <<half_open_calls, response_times>>
           ELSE /\ last_call' = [lc EXCEPT !.invoked = TRUE, !.result = outcome]
                /\ cb_state' = allow.state
                /\ half_open_invoked' = awaited
                /\ UNCHANGED <<cb_stats, half_open_calls, state_change_time,
                               response_times>>
    /\ UNCHANGED <<cb_built, cb_config, now>>
    /\ UNCHANGED outsideBreaker

\* reset()
reset ==
    /\ cb_built
    /\ cb_state' = "CLOSED"
    /\ cb_stats' = CircuitStats
    /\ half_open_calls' = 0
    /\ state_change_time' = now
    /\ UNCHANGED <<cb_built, cb_config, response_times, now, last_call, cb_calls,
                   half_open_invoked>>
    /\ UNCHANGED outsideBreaker

\* one unit of time passes
tick ==
    /\ now < MaxClock
    /\ now' = now + 1
    /\ UNCHANGED outsideClock

(***************************************************************************)
(* Resource locks: EnhancedResourceLock, DeadlockDetector and               *)
(* GracefulShutdown._acquire_resource (src/scripts/shutdown.py).  Neither   *)
(* lock.acquire() nor check_deadlocks() awaits anything, so one             *)
(* _acquire_resource() call is a single step.                               *)
(***************************************************************************)
CheckInterval == 1
MaxLockCalls == 4

Holders == {"A", "B"}
Resources == {"r1", "r2"}
NoHolder == "none"

\* EnhancedResourceLock(resource)
EnhancedResourceLock == [acquired_by |-> NoHolder, contention_count |-> 0]

NoAcquire ==
    [resource |-> "none", task |-> NoHolder, holder_before |-> NoHolder,
     holder_after |-> NoHolder, deadlock |-> FALSE, result |-> "none"]

\* EnhancedResourceLock.acquire(holder): nothing is awaited under the timeout,
\* so the body runs to its return True
lock_acquire(lock, holder) ==
    [ok |-> TRUE,
     lock |-> [acquired_by |-> holder,
               contention_count |-> IF lock.acquired_by # NoHolder
                                    THEN lock.contention_count + 1
                                    ELSE lock.contention_count]]

\* EnhancedResourceLock.release()
lock_release(lock) == [lock EXCEPT !.acquired_by = NoHolder]

\* the tasks reached from the tasks of s along at most n edges of g
RECURSIVE WaitClosure(_, _, _)
WaitClosure(g, s, n) ==
    IF n = 0 THEN s
    ELSE WaitClosure(g, s \cup UNION {g[t] : t \in s}, n - 1)

\* has_cycle, over every task of the graph: some task is reached from itself
has_cycle(g) ==
    \E t \in DOMAIN g : t \in WaitClosure(g, g[t], Cardinality(DOMAIN g))

\* DeadlockDetector.check_deadlocks(): the answer, and what it leaves in
\* _last_check and _state
check_deadlocks(g, t, checked, state) ==
    IF t - checked < CheckInterval
    THEN [found |-> FALSE, last_check |-> checked, state |-> state]
    ELSE IF has_cycle(g)
         THEN [found |-> TRUE, last_check |-> t, state |-> "DETECTED"]
         ELSE [found |-> FALSE, last_check |-> t, state |-> "NONE"]

\* _acquire_resource(resource, task_name)
acquire_resource(resource, task_name) ==
    /\ lock_calls < MaxLockCalls
    /\ lock_calls' = lock_calls + 1
    /\ LET lock == enhanced_locks[resource]
           acquired == lock_acquire(lock, task_name)
           check == check_deadlocks(task_dependencies, now, last_check,
                                    deadlock_state)
           after == IF ~acquired.ok THEN lock
                    ELSE IF check.found THEN lock_release(acquired.lock)
                    ELSE acquired.lock
       IN  /\ enhanced_locks' = [enhanced_locks EXCEPT ![resource] = after]
           /\ resource_locks' = IF acquired.ok
                                THEN resource_locks \cup {resource}
                                ELSE resource_locks
           /\ last_check' = IF acquired.ok THEN check.last_check ELSE last_check
           /\ deadlock_state' = IF acquired.ok THEN check.state
                                ELSE deadlock_state
           /\ managers' = IF acquired.ok /\ ~check.found
                          THEN [managers EXCEPT ![resource][task_name] = @ + 1]
                          ELSE managers
           /\ last_acquire' =
                  [resource |-> resource, task |-> task_name,
                   holder_before |-> lock.acquired_by,
                   holder_after |-> after.acquired_by,
                   deadlock |-> acquired.ok /\ check.found,
                   result |-> IF acquired.ok /\ ~check.found THEN "acquired"
                              ELSE "ResourceAcquisitionError"]
           /\ contended' = IF lock.acquired_by \notin {NoHolder, task_name}
                           THEN contended \cup
                                    {<<task_name, resource, lock.acquired_by>>}
                           ELSE contended
    /\ UNCHANGED <<task_dependencies, last_release>>
    /\ UNCHANGED outsideLocks

NoRelease ==
    [resource |-> "none", by |-> NoHolder, holder_before |-> NoHolder,
     holder_after |-> NoHolder]

\* ResourceContextManager.__aexit__: the "async with" block of the task that
\* was handed a manager for the resource ends, "self._lock.release()"
context_exit(resource, task_name) ==
    /\ managers[resource][task_name] > 0
    /\ managers' = [managers EXCEPT ![resource][task_name] = @ - 1]
    /\ enhanced_locks' = [enhanced_locks EXCEPT
                              ![resource] = lock_release(@)]
    /\ last_release' =
           [resource |-> resource, by |-> task_name,
            holder_before |-> enhanced_locks[resource].acquired_by,
            holder_after |-> lock_release(enhanced_locks[resource]).acquired_by]
    /\ contended' = {}
    /\ UNCHANGED <<resource_locks, task_dependencies, deadlock_state,
                   last_check, last_acquire, lock_calls>>
    /\ UNCHANGED outsideLocks

(***************************************************************************)
(* ResourceStateMachine (src/scripts/shutdown.py).  transition() awaits     *)
(* nothing, so a call is a single step.                                     *)
(***************************************************************************)
ResourceState == {"AVAILABLE", "IN_USE", "CLEANING", "FAILED", "CLEANED"}

\* a resource that has no entry in self._states
NoEntry == "absent"

\* a transition table in which a cleaned resource can be made available again
VALID_TRANSITIONS_reopening ==
    [s \in ResourceState |->
        CASE s = "AVAILABLE" -> {"IN_USE", "CLEANING"}
          [] s = "IN_USE" -> {"AVAILABLE", "CLEANING"}
          [] s = "CLEANING" -> {"CLEANED", "FAILED"}
          [] s = "FAILED" -> {"CLEANING"}
          [] s = "CLEANED" -> {"AVAILABLE"}]

VALID_TRANSITIONS ==
    [s \in ResourceState |->
        CASE s = "AVAILABLE" -> {"IN_USE", "CLEANING"}
          [] s = "IN_USE" -> {"AVAILABLE", "CLEANING"}
          [] s = "CLEANING" -> {"CLEANED", "FAILED"}
          [] s = "FAILED" -> {"CLEANING"}
          [] s = "CLEANED" -> {}]

\* self._states.get(resource, ResourceState.AVAILABLE)
StateOf(states, resource) ==
    IF states[resource] = NoEntry THEN "AVAILABLE" ELSE states[resource]

\* a validation that allows every transition
validate_anything(states, resource, new_state) == TRUE

\* validate_transition(resource, new_state)
validate_transition(states, resource, new_state) ==
    new_state \in VALID_TRANSITIONS[StateOf(states, resource)]

NoTransition ==
    [resource |-> "none", current |-> "none", stored |-> "none",
     new_state |-> "none", result |-> "none"]

\* transition(resource, new_state)
transition(resource, new_state) ==
    LET lt == [resource |-> resource,
               current |-> StateOf(rsm_states, resource),
               stored |-> rsm_states[resource],
               new_state |-> new_state, result |-> "returned"]
    IN  /\ IF ~validate_transition(rsm_states, resource, new_state)
           THEN /\ last_transition' = [lt EXCEPT !.result = "ValueError"]
                /\ UNCHANGED rsm_states
           ELSE /\ last_transition' = lt
                /\ rsm_states' = [rsm_states EXCEPT ![resource] = new_state]
        /\ UNCHANGED state_machine_states
        /\ UNCHANGED outsideStates

(***************************************************************************)
(* AdaptiveTimeoutManager (src/src/scripts/shutdown.py).  Durations and     *)
(* timeouts are whole numbers of time units; a mean is the fraction         *)
(* num / den.                                                               *)
(***************************************************************************)
MaxDuration == 3
MaxTimeout == 2
HistorySize == 2

Durations == 0 .. MaxDuration
Timeouts == 1 .. MaxTimeout
Keys == {"k1", "k2"}

\* a key that has no entry in self._history
NoHistory == [present |-> FALSE, items |-> <<>>]

RECURSIVE SumOf(_)
SumOf(s) == IF s = <<>> THEN 0 ELSE Head(s) + SumOf(Tail(s))

\* a full history that starts again from the new item
deque_append_starts_again(q, d) ==
    IF Len(q) < HistorySize THEN Append(q, d) ELSE <<d>>

\* deque(maxlen=history_size).append(d): a full deque drops its oldest item
deque_append(q, d) ==
    IF Len(q) < HistorySize THEN Append(q, d) ELSE Append(Tail(q), d)

\* self._history[key] of the defaultdict: a missing key gets an empty deque
HistoryOf(history, key) == history[key].items

\* AdaptiveTimeoutManager(min_timeout, max_timeout, history_size)
AdaptiveTimeoutManager_init(min_timeout, max_timeout) ==
    /\ ~atm_built
    /\ atm_built' = TRUE
    /\ atm_min' = min_timeout
    /\ atm_max' = max_timeout
    /\ atm_history' = [k \in Keys |-> NoHistory]
    /\ UNCHANGED outsideTimeouts

\* update_timeout(key, avg_duration, max_duration)
update_timeout(key, avg_duration, max_duration) ==
    /\ atm_built
    /\ atm_history' =
           [atm_history EXCEPT
                ![key] = [present |-> TRUE,
                          items |-> deque_append(HistoryOf(atm_history, key),
                                                 max_duration)]]
    /\ UNCHANGED <<atm_built, atm_min, atm_max>>
    /\ UNCHANGED outsideTimeouts

\* what get_timeout would return if the mean were not clamped
timeout_unclamped(history, lo, hi, key) ==
    LET q == HistoryOf(history, key)
    IN  IF q = <<>> THEN [num |-> lo, den |-> 1]
        ELSE [num |-> SumOf(q), den |-> Len(q)]

\* the value get_timeout(key) returns: min(max(mean, self._min), self._max)
timeout_of(history, lo, hi, key) ==
    LET q == HistoryOf(history, key)
        avg == [num |-> SumOf(q), den |-> Len(q)]
        \* max(avg, lo) keeps avg unless lo is greater
        m == IF lo * avg.den > avg.num THEN [num |-> lo, den |-> 1] ELSE avg
    IN  IF q = <<>> THEN [num |-> lo, den |-> 1]
        \* min(m, hi) keeps m unless hi is smaller
        ELSE IF hi * m.den < m.num THEN [num |-> hi, den |-> 1] ELSE m

\* get_timeout(key): reading self._history[key] gives a missing key an entry
get_timeout(key) ==
    /\ atm_built
    /\ ~atm_history[key].present
    /\ atm_history' = [atm_history EXCEPT ![key].present = TRUE]
    /\ UNCHANGED <<atm_built, atm_min, atm_max>>
    /\ UNCHANGED outsideTimeouts

\* at most MaxRecorded durations are handed over for one key
MaxRecorded == 3

\* _update_timeout_statistics(timings) with timings = {resource: [duration]},
\* the one duration a resource has after a run of the cleanup:
\* "avg_duration = sum(durations) / len(durations)", "max_duration =
\* max(durations)" are both that duration, and
\* self._adaptive_timeouts.update_timeout(resource, avg_duration,
\* max_duration) appends max_duration to the history of the resource
update_timeout_statistics(resource, duration) ==
    /\ atm_built
    /\ Len(timings_recorded[resource]) < MaxRecorded
    /\ timings_recorded' = [timings_recorded EXCEPT
                                ![resource] = Append(@, duration)]
    /\ atm_history' =
           [atm_history EXCEPT
                ![resource] = [present |-> TRUE,
                               items |-> deque_append(HistoryOf(atm_history, resource),
                                                      duration)]]
    /\ UNCHANGED <<atm_built, atm_min, atm_max>>
    /\ UNCHANGED outsideStatistics

(***************************************************************************)
(* GracefulShutdown._run_single_cleanup (src/scripts/shutdown.py): the     *)
(* retry loop around one cleanup handler.  No code of the repository calls *)
(* it; _cleanup_single_resource, which _run_cleanup_handlers would reach,  *)
(* is defined nowhere.  The calls below are made on their own.             *)
(***************************************************************************)
\* ShutdownConfig.max_retries, copied to self._max_retry_attempts
max_retries == 3

\* the ways "await handler.handler()" can end under
\* self._timeout_manager.timeout(handler.timeout)
HandlerOutcomes == {"returned", "raised", "TimeoutError"}

\* _handle_cleanup_failure(resource, e): called after the last attempt has
\* failed and defined nowhere; it records a ResourceCleanupError and returns
handle_cleanup_failure(failures, resource) ==
    [failures EXCEPT ![resource] = @ + 1]

\* _run_single_cleanup(resource, handler) is called: it enters
\* "for attempt in range(self._max_retry_attempts)"
run_single_cleanup(resource) ==
    /\ rsc_status[resource] = "idle"
    /\ rsc_status' = [rsc_status EXCEPT
           ![resource] = IF max_retries = 0 THEN "returned" ELSE "running"]
    /\ UNCHANGED <<rsc_attempts, resource_freed, resource_errors,
                   cleanup_failures>>
    /\ UNCHANGED outsideRetry

\* an iteration whose handler returns goes on to the next attempt
cleanup_attempt_goes_on(resource, outcome) ==
    /\ rsc_status[resource] = "running"
    /\ LET attempt == Len(rsc_attempts[resource])
           last == attempt = max_retries - 1
       IN  /\ rsc_attempts' = [rsc_attempts EXCEPT ![resource] = Append(@, outcome)]
           /\ rsc_status' = [rsc_status EXCEPT
                  ![resource] = IF last THEN "returned" ELSE "running"]
           /\ IF outcome = "returned"
              THEN /\ resource_freed' = [resource_freed EXCEPT ![resource] = @ + 1]
                   /\ UNCHANGED <<resource_errors, cleanup_failures>>
              ELSE /\ resource_errors' = [resource_errors EXCEPT ![resource] = @ + 1]
                   /\ cleanup_failures' =
                          IF last THEN handle_cleanup_failure(cleanup_failures, resource)
                          ELSE cleanup_failures
                   /\ UNCHANGED resource_freed
    /\ UNCHANGED outsideRetry

\* one iteration of the loop: the handler is awaited under its timeout; when
\* it returns the resource is counted as freed and the loop is left by
\* "break"; an Exception or the TimeoutError goes to _handle_cleanup_error
\* and, on the last attempt, to _handle_cleanup_failure
cleanup_attempt(resource, outcome) ==
    /\ rsc_status[resource] = "running"
    /\ LET attempt == Len(rsc_attempts[resource])
           last == attempt = max_retries - 1
       IN  /\ rsc_attempts' = [rsc_attempts EXCEPT ![resource] = Append(@, outcome)]
           /\ IF outcome = "returned"
              THEN /\ resource_freed' = [resource_freed EXCEPT ![resource] = @ + 1]
                   /\ rsc_status' = [rsc_status EXCEPT ![resource] = "returned"]
                   /\ UNCHANGED <<resource_errors, cleanup_failures>>
              ELSE /\ resource_errors' = [resource_errors EXCEPT ![resource] = @ + 1]
                   /\ cleanup_failures' =
                          IF last THEN handle_cleanup_failure(cleanup_failures, resource)
                          ELSE cleanup_failures
                   /\ rsc_status' = [rsc_status EXCEPT
                          ![resource] = IF last THEN "returned" ELSE "running"]
                   /\ UNCHANGED resource_freed
    /\ UNCHANGED outsideRetry

(***************************************************************************)
(* The shutdown specification: GracefulShutdown.__init__, then registration *)
(* calls, shutdown() calls and the steps of the coroutines.                *)
(***************************************************************************)
Init ==
    /\ shutdown_in_progress = FALSE
    /\ shutdown_event = FALSE
    /\ context = [phase |-> "none", errors |-> <<>>, completed_phases |-> {}]
    /\ phase_handlers = [p \in Phases |-> {}]
    /\ tasks = [t \in Tasks |-> "none"]
    /\ cleanup_handlers = {}
    /\ metrics_errors = [ty \in ErrorTypes |-> 0]
    /\ tg_dependencies = [n \in Nodes |-> {}]
    /\ tg_weights = [e \in Nodes \X Nodes |-> 0]
    /\ caller = [c \in Callers |-> "idle"]
    /\ pc = [at |-> "idle", i |-> 0]
    /\ hstate = [h \in Handlers |-> "idle"]
    /\ tstate = [t \in Tasks |-> "live"]
    /\ cancel = NoCancel
    /\ cleanup = NoCleanup
    /\ report = NoReport
    /\ setup_calls = 0
    /\ phase_runs = [p \in Phases |-> 0]
    /\ cancel_runs = 0
    /\ cleanup_runs = 0
    /\ elapsed = 0
    /\ scope_elapsed = 0
    /\ dependency_graph = [n \in Nodes |-> {}]
    /\ dependency_keys = <<>>
    /\ cleanup_order = <<>>
    /\ register_outcome = "none"
    /\ register_calls = 0
    /\ services = <<>>
    /\ app_dependency_graph = [n \in Nodes |-> {}]
    /\ startup_order = <<>>
    /\ startup_complete = FALSE
    /\ sstate = [n \in Nodes |-> "new"]
    /\ app_pc = NoCall
    /\ app_outcome = NoOutcome
    /\ resolve_outcome = NoResolve
    /\ exhausted = {}
    /\ retried = {}
    /\ app_calls = 0
    /\ cb_built = FALSE
    /\ cb_config = CircuitConfig
    /\ cb_state = "CLOSED"
    /\ cb_stats = CircuitStats
    /\ half_open_calls = 0
    /\ state_change_time = 0
    /\ response_times = 0
    /\ now = 0
    /\ last_call = NoLastCall
    /\ cb_calls = 0
    /\ half_open_invoked = 0
    /\ enhanced_locks = [r \in Resources |-> EnhancedResourceLock]
    /\ managers = [r \in Resources |-> [h \in Holders |-> 0]]
    /\ last_release = NoRelease
    /\ resource_locks = {}
    /\ task_dependencies = [t \in Holders |-> {}]
    /\ deadlock_state = "NONE"
    /\ last_check = 0
    /\ last_acquire = NoAcquire
    /\ contended = {}
    /\ lock_calls = 0
    /\ rsm_states = [r \in Resources |-> NoEntry]
    /\ last_transition = NoTransition
    /\ state_machine_states = [n \in Nodes |-> NoEntry]
    /\ atm_built = FALSE
    /\ atm_min = 1
    /\ atm_max = 1
    /\ atm_history = [k \in Keys |-> NoHistory]
    /\ timings_recorded = [k \in Keys |-> <<>>]
    /\ rsc_status = [r \in Resources |-> "idle"]
    /\ rsc_attempts = [r \in Resources |-> <<>>]
    /\ resource_freed = [r \in Resources |-> 0]
    /\ resource_errors = [r \in Resources |-> 0]
    /\ cleanup_failures = [r \in Resources |-> 0]

\* at most MaxSetup registration calls are made
Setup ==
    /\ setup_calls < MaxSetup
    /\ \/ \E p \in Phases, h \in Handlers : register_phase_handler(p, h)
       \/ \E t \in Tasks, prio \in Priorities : register_task(t, prio)
       \/ \E n \in Nodes : register_cleanup(n)
       \/ \E n \in Nodes, d \in Nodes : task_graph_add_dependency(n, d)

Next ==
    \/ Setup
    \/ \E c \in Callers : shutdown(c)
    \/ enter_phase
    \/ \E h \in Handlers : handler_return(h)
    \/ \E h \in Handlers : handler_raise(h)
    \/ phase_complete
    \/ phase_error
    \/ phase_timeout
    \/ \E t \in Tasks : task_complete(t)
    \/ cancel_tasks_begin
    \/ cancel_next_tier
    \/ cancel_start_batch
    \/ \E t \in Tasks : task_acknowledge(t)
    \/ \E t \in Tasks : task_fail(t)
    \/ batch_complete
    \/ batch_timeout
    \/ cancel_tasks_end
    \/ run_cleanup_handlers_begin
    \/ run_cleanup_group
    \/ run_cleanup_handlers_end
    \/ finalize_shutdown

Spec == Init /\ [][Next]_vars


\* The steps of the running shutdown() coroutine.  The event loop resumes a
\* coroutine whose awaited future is done and fires the timers of
\* asyncio.timeout, so these steps are weakly fair; the handlers and the
\* tracked tasks are free never to return.
Orchestrator ==
    \/ enter_phase
    \/ phase_complete
    \/ phase_error
    \/ phase_timeout
    \/ cancel_tasks_begin
    \/ cancel_next_tier
    \/ cancel_start_batch
    \/ batch_complete
    \/ batch_timeout
    \/ cancel_tasks_end
    \/ run_cleanup_handlers_begin
    \/ run_cleanup_group
    \/ run_cleanup_handlers_end
    \/ finalize_shutdown

\* The runs of one shutdown() call over registered phase handlers and
\* tracked tasks, the callables that can raise or never return; the task
\* graph stays empty, so the resource cleanup has no group to run.
SetupFair ==
    /\ setup_calls < MaxSetup
    /\ \/ \E p \in Phases, h \in Handlers : register_phase_handler(p, h)
       \/ \E t \in Tasks, prio \in Priorities : register_task(t, prio)

NextFair ==
    \/ SetupFair
    \/ shutdown(1)
    \/ enter_phase
    \/ \E h \in Handlers : handler_return(h)
    \/ \E h \in Handlers : handler_raise(h)
    \/ phase_complete
    \/ phase_error
    \/ phase_timeout
    \/ \E t \in Tasks : task_complete(t)
    \/ cancel_tasks_begin
    \/ cancel_next_tier
    \/ cancel_start_batch
    \/ \E t \in Tasks : task_acknowledge(t)
    \/ \E t \in Tasks : task_fail(t)
    \/ batch_complete
    \/ batch_timeout
    \/ cancel_tasks_end
    \/ run_cleanup_handlers_begin
    \/ run_cleanup_handlers_end
    \/ finalize_shutdown

SpecFair == Init /\ [][NextFair]_vars /\ WF_vars(Orchestrator)

\* The timed runs of one shutdown() call over phase handlers and tracked
\* tasks: time passes while shutdown() waits, and a timeout fires when its
\* timer has expired.
NextTimed ==
    \/ SetupFair
    \/ shutdown(1)
    \/ enter_phase
    \/ \E h \in Handlers : handler_return(h)
    \/ \E h \in Handlers : handler_raise(h)
    \/ phase_complete
    \/ phase_error
    \/ TimeoutDue /\ phase_timeout
    \/ \E t \in Tasks : task_complete(t)
    \/ cancel_tasks_begin
    \/ cancel_next_tier
    \/ cancel_start_batch
    \/ \E t \in Tasks : task_acknowledge(t)
    \/ \E t \in Tasks : task_fail(t)
    \/ batch_complete
    \/ TimeoutDue /\ batch_timeout
    \/ cancel_tasks_end
    \/ run_cleanup_handlers_begin
    \/ run_cleanup_handlers_end
    \/ finalize_shutdown
    \/ time_passes

SpecTimed == Init /\ [][NextTimed]_vars

\* The runs of one shutdown() call in which the coroutines that registered
\* the tracked tasks may leave their register_task blocks.
NextRegistry ==
    \/ NextFair
    \/ \E t \in Tasks : register_task_exit(t)

SpecRegistry == Init /\ [][NextRegistry]_vars

\* The cleanup scenarios: only cleanup handlers and task-graph edges are
\* registered, up to MaxCleanupSetup of them, so no phase handler and no
\* tracked task takes a step.
MaxCleanupSetup == 5

SetupCleanup ==
    /\ setup_calls < MaxCleanupSetup
    /\ \/ \E n \in Nodes : register_cleanup(n)
       \/ \E n \in Nodes, d \in Nodes : task_graph_add_dependency(n, d)

NextCleanup ==
    \/ SetupCleanup
    \/ \E c \in Callers : shutdown(c)
    \/ enter_phase
    \/ phase_complete
    \/ cancel_tasks_begin
    \/ cancel_next_tier
    \/ cancel_tasks_end
    \/ run_cleanup_handlers_begin
    \/ run_cleanup_group
    \/ run_cleanup_handlers_end
    \/ finalize_shutdown

SpecCleanup == Init /\ [][NextCleanup]_vars

\* The dependency registrations of one GracefulShutdown.
NextDependencies ==
    \E resource \in Nodes, depends_on \in SUBSET Nodes :
        register_resource_dependency(resource, depends_on)

SpecDependencies == Init /\ [][NextDependencies]_vars

\* The startup of one Application: registrations, then init_services() and
\* startup() calls, one at a time.
NextStartup ==
    \/ \E name \in Nodes, deps \in SUBSET Nodes : registerService(name, deps)
    \/ init_services
    \/ startup
    \/ init_service_attempt
    \/ start_returns
    \/ start_raises
    \/ init_services_return
    \/ startup_return

SpecStartup == Init /\ [][NextStartup]_vars

\* One circuit breaker: it is built, then called and reset while time passes.
NextBreaker ==
    \/ \E config \in Configs : CircuitBreaker_init(config)
    \/ \E outcome \in Outcomes : call(outcome)
    \/ reset
    \/ tick

SpecBreaker == Init /\ [][NextBreaker]_vars

\* The resource locks of one GracefulShutdown: tasks acquire resources and
\* leave their "async with" blocks while time passes.
NextLocks ==
    \/ \E resource \in Resources, task_name \in Holders :
           acquire_resource(resource, task_name)
    \/ \E resource \in Resources, task_name \in Holders :
           context_exit(resource, task_name)
    \/ tick

SpecLocks == Init /\ [][NextLocks]_vars

\* One ResourceStateMachine: any transition of any resource is asked for.
NextStates ==
    \E resource \in Resources, new_state \in ResourceState :
        transition(resource, new_state)

SpecStates == Init /\ [][NextStates]_vars

\* One AdaptiveTimeoutManager: it is built with some min and max, then
\* updated and asked for timeouts.
NextTimeouts ==
    \/ \E min_timeout \in Timeouts, max_timeout \in Timeouts :
           AdaptiveTimeoutManager_init(min_timeout, max_timeout)
    \/ \E key \in Keys, avg_duration \in Durations, max_duration \in Durations :
           update_timeout(key, avg_duration, max_duration)
    \/ \E key \in Keys : get_timeout(key)

SpecTimeouts == Init /\ [][NextTimeouts]_vars

\* The adaptive timeouts of one resource: durations are handed over for it
\* one at a time, and timeouts are asked for.
NextStatistics ==
    \/ \E min_timeout \in Timeouts, max_timeout \in Timeouts :
           AdaptiveTimeoutManager_init(min_timeout, max_timeout)
    \/ \E duration \in Durations : update_timeout_statistics("k1", duration)
    \/ \E key \in Keys : get_timeout(key)

SpecStatistics == Init /\ [][NextStatistics]_vars

\* _run_single_cleanup is called once for each of the resources, with
\* handlers that return, raise or run into their timeout.
NextRetry ==
    \/ \E resource \in Resources : run_single_cleanup(resource)
    \/ \E resource \in Resources, outcome \in HandlerOutcomes :
           cleanup_attempt(resource, outcome)

SpecRetry == Init /\ [][NextRetry]_vars

(***************************************************************************)
(* Properties of shutdown().                                               *)
(***************************************************************************)
\* C1: whatever the number and the timing of the shutdown() calls, one phase
\* sequence executes: a single call runs it, every phase is entered at most
\* once (so each of its handlers is started at most once), and the task
\* cancellation and the resource cleanup are entered at most once.
C1_OnePhaseSequence ==
    /\ Cardinality({c \in Callers : caller[c] \in {"running", "returned"}}) <= 1
    /\ \A p \in Phases : phase_runs[p] <= 1
    /\ cancel_runs <= 1
    /\ cleanup_runs <= 1

\* a second call was made and returned while the phases of the first ran to
\* their end, each once
C1_Witness ==
    /\ pc.at = "done"
    /\ \E c \in Callers : caller[c] = "noop"
    /\ \E c \in Callers : caller[c] = "returned"
    /\ \A p \in Phases : phase_runs[p] = 1
    /\ cancel_runs = 1
    /\ cleanup_runs = 1

RaisedErrors ==
    metrics_errors["phase_error"] + metrics_errors["task_error"]
        + metrics_errors["batch_processing"] + metrics_errors["shutdown_error"]

\* C3, as claimed: every error raised during a phase (by a phase handler, by
\* the task cancellation, by the resource cleanup) is in context.errors and
\* every later phase still runs, so that at the end all six phases have run.
C3_ErrorsAccumulateNeverAbort ==
    report.produced =>
        /\ Len(context.errors) >= RaisedErrors
        /\ \A p \in Phases : phase_runs[p] = 1

\* the phase of a handler that was cut off by the timeout of its phase
TimedOutPhases == {PhaseOf(h) : h \in {g \in Handlers : hstate[g] = "cancelled"}}

\* C4, as claimed: when the handlers of a phase miss the deadline, an error
\* for that phase is in context.errors, and the next phase still runs.
C4_PhaseTimeoutRecorded ==
    \A p \in TimedOutPhases :
        /\ \E k \in DOMAIN context.errors : context.errors[k].phase = p
        /\ report.produced /\ p # "FINALIZE" =>
               phase_runs[ShutdownPhase[PhaseIndex(p) + 1]] = 1

\* C5, as claimed: the phases are entered in the order of ShutdownPhase, and
\* when a phase is entered every handler of the phases before it has
\* finished or was cut off by the timeout: a handler that runs belongs to
\* the current phase.
C5_PhasesInOrderNoOverlap ==
    /\ \A i \in 2..Len(ShutdownPhase) :
           phase_runs[ShutdownPhase[i]] > 0 => phase_runs[ShutdownPhase[i - 1]] > 0
    /\ \A h \in Handlers : hstate[h] = "running" => context.phase = PhaseOf(h)

C7_DependentsCleanedFirst ==
    \A x \in Nodes, y \in Nodes :
        /\ x # y
        /\ y \in tg_dependencies[x]
        /\ x \in Range(cleanup.attempted)
        /\ y \in Range(cleanup.attempted)
        => IndexOf(cleanup.attempted, x) < IndexOf(cleanup.attempted, y)

C9_ExhaustedRetriesAbortStartup ==
    /\ app_outcome.failed # NoNode => app_outcome.result = "raised"
    /\ app_outcome.call = "startup" /\ app_outcome.result = "returned" =>
           exhausted = {}

\* the resources that depend, directly or not, on the members of S
RECURSIVE DependencyClosure(_, _, _)
DependencyClosure(g, S, k) ==
    IF k = 0 THEN S
    ELSE DependencyClosure(g, S \cup UNION {g[x] : x \in S}, k - 1)

Acyclic(g) ==
    \A n \in Nodes : n \notin DependencyClosure(g, g[n], Cardinality(Nodes))

\* order holds every member of nodes once, each after its dependencies
IsDependencyOrder(order, nodes, g) ==
    /\ Range(order) = nodes
    /\ Len(order) = Cardinality(nodes)
    /\ \A x \in nodes : \A d \in g[x] : IndexOf(order, d) < IndexOf(order, x)

\* C10, as claimed for _update_cleanup_order: once dependencies were
\* registered and form an acyclic graph, self._cleanup_order holds every
\* registered resource and every dependency once, each after its dependencies.
C10_OrderCoversAcyclicGraph ==
    register_calls > 0 /\ Acyclic(dependency_graph) =>
        IsDependencyOrder(cleanup_order,
                          Range(dependency_keys)
                              \cup UNION {dependency_graph[n] : n \in Nodes},
                          dependency_graph)

\* n lies on a cycle of g
OnCycle(g, n) == n \in DependencyClosure(g, g[n], Cardinality(Nodes))

\* C11, as claimed for _resolve_dependencies: when the registered graph has a
\* cycle, the computation of the order raises instead of returning an order,
\* and its error names a service that lies on a cycle.
C11_CycleErrorNamesNode ==
    resolve_outcome.called /\ ~Acyclic(app_dependency_graph) =>
        /\ resolve_outcome.raised
        /\ \E n \in resolve_outcome.named : OnCycle(app_dependency_graph, n)

\* the graph of the end-to-end example: A without dependencies, B and C
\* depending on A
ExampleGraph == [n \in Nodes |-> IF n \in {"B", "C"} THEN {"A"} ELSE {}]

\* C12, as claimed for _resolve_dependencies: the order that was returned is
\* the one the computation returns for the same services and dependencies
\* under every other registration order and every other iteration order of
\* the sets; for the example graph it is A, B, C.
C12_OrderIsDeterministic ==
    resolve_outcome.called /\ ~resolve_outcome.raised =>
        /\ \A svcs \in Permutations(Range(services)), so \in Permutations(Nodes) :
               resolve_dependencies(svcs, app_dependency_graph, so).order
                   = resolve_outcome.order
        /\ Range(services) = Nodes /\ app_dependency_graph = ExampleGraph =>
               resolve_outcome.order = NodeSeq

(***************************************************************************)
(* Properties of the circuit breaker.                                      *)
(***************************************************************************)
\* C13: once failureThreshold calls in a row have failed the breaker is OPEN,
\* and a call() made while it is OPEN and before recoveryTimeout has elapsed
\* fails with CircuitBreakerOpenError and does not invoke the wrapped function.
C13_OpenFailsFast ==
    /\ (/\ last_call.result \in {"raised", "AttributeError"}
        /\ cb_stats.consecutive_failures >= cb_config.failure_threshold)
           => cb_state = "OPEN"
    /\ (/\ last_call.state_before = "OPEN"
        /\ last_call.elapsed < cb_config.recovery_timeout)
           => /\ last_call.result = "CircuitBreakerOpenError"
              /\ ~last_call.invoked

\* a breaker that the failures of the wrapped function opened has rejected a
\* call before the recovery timeout
C13_Witness ==
    /\ cb_config.has_timeout
    /\ cb_stats.consecutive_failures >= cb_config.failure_threshold
    /\ last_call.state_before = "OPEN"
    /\ last_call.elapsed < cb_config.recovery_timeout
    /\ last_call.result = "CircuitBreakerOpenError"
    /\ cb_state = "OPEN"

\* C14: the first call() made once recoveryTimeout has elapsed since the
\* breaker opened is let through in HALF_OPEN and invokes the wrapped
\* function; if the function returns, the breaker is CLOSED and its count of
\* consecutive failures is 0.
C14_RecoveryProbeCloses ==
    (/\ last_call.state_before = "OPEN"
     /\ last_call.elapsed >= cb_config.recovery_timeout)
        => /\ last_call.allowed_in = "HALF_OPEN"
           /\ last_call.invoked
           /\ last_call.result = "returned"
                  => cb_state = "CLOSED" /\ cb_stats.consecutive_failures = 0


(***************************************************************************)
(* Properties of the resource locks.                                       *)
(***************************************************************************)
\* C15: when task b asks for a resource held by task a after a has asked for
\* a resource held by b, and no lock was released in between, the deadlock
\* check of that call returns true and exactly one of the two locks is
\* released by force, the other one staying with the task that held it.
C15_MutualWaitDetected ==
    \A a, b \in Holders, q \in Resources :
        (/\ a # b
         /\ q # last_acquire.resource
         /\ <<a, q, b>> \in contended
         /\ last_acquire.task = b
         /\ last_acquire.holder_before = a)
            => /\ last_acquire.deadlock
               /\ \/ /\ last_acquire.holder_after = NoHolder
                     /\ enhanced_locks[q].acquired_by = b
                  \/ /\ last_acquire.holder_after = a
                     /\ enhanced_locks[q].acquired_by = NoHolder

\* C16: a request for a lock that another task holds does not succeed and
\* leaves the lock with its holder.
C16_SecondAcquireWaits ==
    last_acquire.holder_before \notin {NoHolder, last_acquire.task}
        => /\ last_acquire.result # "acquired"
           /\ last_acquire.holder_after = last_acquire.holder_before


(***************************************************************************)
(* Properties of the resource state machine.                               *)
(***************************************************************************)
\* C17: a transition() call whose (current state, requested state) pair is not
\* in the transition table raises an error, and what is stored for the
\* resource is what was stored before the call.
C17_InvalidTransitionRejected ==
    (/\ last_transition.result # "none"
     /\ last_transition.new_state
            \notin VALID_TRANSITIONS[last_transition.current])
        => /\ last_transition.result = "ValueError"
           /\ rsm_states[last_transition.resource] = last_transition.stored

\* a resource that is being cleaned was asked to go back to use, and refused
C17_Witness ==
    /\ last_transition.current = "CLEANING"
    /\ last_transition.new_state = "IN_USE"
    /\ last_transition.result = "ValueError"
    /\ rsm_states[last_transition.resource] = "CLEANING"

\* C18: no step takes a resource out of CLEANED.
C18_CleanedIsTerminal ==
    [][\A r \in Resources :
           rsm_states[r] = "CLEANED" => rsm_states'[r] = "CLEANED"]_vars

\* a transition() call was made for a cleaned resource
C18_Witness ==
    /\ last_transition.current = "CLEANED"
    /\ last_transition.result # "none"
    /\ rsm_states[last_transition.resource] = "CLEANED"


(***************************************************************************)
(* Properties of the adaptive timeouts.                                    *)
(***************************************************************************)
\* C19: when the manager was built with min <= max, then after any updates
\* the timeout of every key is at least min and at most max, and it is min
\* for a key that has had no update.
C19_TimeoutWithinBounds ==
    atm_built /\ atm_min <= atm_max =>
        \A k \in Keys :
            LET t == timeout_of(atm_history, atm_min, atm_max, k)
            IN  /\ atm_min * t.den <= t.num
                /\ t.num <= atm_max * t.den
                /\ HistoryOf(atm_history, k) = <<>> => t.num = atm_min * t.den

\* the durations of one key average above max while another key, never
\* updated, was asked for its timeout, and min < max
C19_Witness ==
    /\ atm_built
    /\ atm_min < atm_max
    /\ atm_history["k2"] = [present |-> TRUE, items |-> <<>>]
    /\ \E k \in Keys : /\ Len(HistoryOf(atm_history, k)) = HistorySize
                       /\ SumOf(HistoryOf(atm_history, k))
                              > atm_max * HistorySize


(***************************************************************************)
(* Properties of concurrent shutdown() calls.                              *)
(***************************************************************************)
\* C20: a shutdown() call that found another one in flight has not returned
\* as long as that one has not completed and produced its report.
C20_SecondCallerWaitsForReport ==
    \A c \in Callers :
        caller[c] = "noop" => pc.at = "done" /\ report.produced


(***************************************************************************)
(* Properties of the time and the order of the shutdown steps.             *)
(***************************************************************************)
\* the sum of the six configured phase timeouts
SumOfPhaseTimeouts == 6 * PhaseTimeout

\* C21: the time from the start of shutdown() never exceeds the sum of the
\* six phase timeouts, up to and including the end of FINALIZE.
C21_ShutdownWithinPhaseTimeouts == elapsed <= SumOfPhaseTimeouts


\* a cancellation request was sent to the task
Requested(t) == tstate[t] \in {"cancelling", "cancelled", "failed"}

\* the place of the task's tier in the order of TaskPriority
TierOf(t) == IndexOf(TaskPriority, tasks[t])

\* C22: when a task has received its cancellation request, every tracked
\* task of a higher tier has been dealt with (cancelled or found done) in a
\* batch that has completed or timed out: none is untouched, waiting for its
\* batch, or in the batch that is being awaited.
C22_TiersInPriorityOrder ==
    \A t \in Tasks, u \in Tasks :
        (/\ tasks[t] # "none"
         /\ tasks[u] # "none"
         /\ TierOf(u) < TierOf(t)
         /\ Requested(t))
            => /\ tstate[u] # "live"
               /\ u \notin cancel.batch
               /\ u \notin Range(cancel.pending)

\* a task of a lower tier is being cancelled after the batch of a task of a
\* higher tier has timed out
C22_Witness ==
    \E t \in Tasks, u \in Tasks :
        /\ tasks[t] # "none"
        /\ tasks[u] # "none"
        /\ TierOf(u) < TierOf(t)
        /\ tstate[t] = "cancelling"
        /\ t \in cancel.batch
        /\ tstate[u] = "cancelling"
        /\ metrics_errors["batch_processing"] = 1


\* tracked tasks whose batch ran into the timeout of its tier: the request
\* was sent, the task has not ended, and its batch is no longer awaited
TimedOutTasks ==
    {t \in Tasks : tasks[t] # "none" /\ tstate[t] = "cancelling" /\ t \notin cancel.batch}

C24_CompletedPhasesRanClean ==
    \A p \in context.completed_phases :
        \A h \in phase_handlers[p] : hstate[h] = "done"

\* the shutdown has gone through a phase whose handler raised or was cut off
\* by the timeout, has not marked it, and has marked a later phase whose
\* handler returned
C24_Witness ==
    \E p \in Phases, r \in Phases :
        /\ \E h \in phase_handlers[p] : hstate[h] \in {"raised", "cancelled"}
        /\ phase_handlers[r] # {}
        /\ PhaseIndex(p) < PhaseIndex(r)
        /\ p \notin context.completed_phases
        /\ r \in context.completed_phases


\* C25: in one HALF_OPEN period func is awaited at most half_open_max_calls
\* times.
C25_HalfOpenCallsLimited ==
    cb_built => half_open_invoked <= cb_config.half_open_max_calls


\* C26: a call that fails while the breaker is HALF_OPEN leaves it OPEN with
\* the recovery wait started anew at the time of that call, and a call made
\* while the breaker is OPEN and less than recoveryTimeout after the time it
\* last opened is rejected without awaiting func and leaves the breaker OPEN.
C26_FailedProbeReopens ==
    [][cb_calls' # cb_calls =>
          /\ (/\ last_call'.allowed_in = "HALF_OPEN"
              /\ last_call'.result \in {"raised", "AttributeError"})
                 => /\ cb_state' = "OPEN"
                    /\ state_change_time' = now
          /\ (/\ cb_state = "OPEN"
              /\ now - state_change_time < cb_config.recovery_timeout)
                 => /\ last_call'.result = "CircuitBreakerOpenError"
                    /\ ~last_call'.invoked
                    /\ cb_state' = "OPEN"
                    /\ state_change_time' = state_change_time]_vars

\* a probe has failed in HALF_OPEN (the breaker is OPEN with more failures in
\* a row than the threshold, which only a failure in HALF_OPEN gives), and
\* the call after it was rejected, later than recoveryTimeout after the first
\* opening and sooner than that after the second
C26_Witness ==
    /\ cb_state = "OPEN"
    /\ half_open_invoked >= 1
    /\ cb_stats.consecutive_failures > cb_config.failure_threshold
    /\ last_call.state_before = "OPEN"
    /\ last_call.result = "CircuitBreakerOpenError"
    /\ ~last_call.invoked
    /\ last_call.elapsed < cb_config.recovery_timeout
    /\ now >= cb_config.recovery_timeout


HolderOrder == <<"A", "B">>

\* the lexicographically smallest holder id of a set of holders
SmallestHolder(S) ==
    CHOOSE h \in S : \A g \in S : IndexOf(HolderOrder, h) <= IndexOf(HolderOrder, g)

\* the call just made closed a wait-for cycle: task b asked for the resource
\* that a held, after a had asked for resource q that b held
ClosesCycle(a, b, q) ==
    /\ a # b
    /\ q # last_acquire.resource
    /\ <<a, q, b>> \in contended
    /\ last_acquire.task = b
    /\ last_acquire.holder_before = a

\* C28: when a request closes a wait-for cycle of two tasks, the lock that
\* the smaller holder id of the two held is the one released by force, and
\* the lock of the other task stays with it, whichever of the two made the
\* request.
C28_SmallestHolderIsVictim ==
    \A a, b \in Holders, q \in Resources :
        ClosesCycle(a, b, q) =>
            LET victim == SmallestHolder({a, b})
                r == last_acquire.resource
            IN  IF victim = a
                THEN /\ enhanced_locks[r].acquired_by = NoHolder
                     /\ enhanced_locks[q].acquired_by = b
                ELSE /\ enhanced_locks[q].acquired_by = NoHolder
                     /\ enhanced_locks[r].acquired_by = a

\* C29: a request that is given up because of a deadlock (the check of the
\* call returned true, or the call closed a wait-for cycle) ends in
\* DeadlockError, which is not the error of a request that timed out.
C29_DeadlockErrorDistinct ==
    (\/ last_acquire.deadlock
     \/ \E a, b \in Holders, q \in Resources : ClosesCycle(a, b, q))
        => last_acquire.result = "DeadlockError"

\* C30: the end of the "async with" block of a task that is not the holder
\* of the lock leaves the holder as it was.
C30_ReleaseOnlyByHolder ==
    (/\ last_release.resource # "none"
     /\ last_release.holder_before # last_release.by)
        => last_release.holder_after = last_release.holder_before


\* C31: the holder field of a lock is set exactly while an acquire that
\* succeeded has not been matched by its release: some task has been handed
\* the lock and has not ended its "async with" block.
C31_HolderSetExactlyWhileAcquired ==
    \A r \in Resources :
        enhanced_locks[r].acquired_by # NoHolder
            <=> \E h \in Holders : managers[r][h] > 0


(***************************************************************************)
(* Properties of the task registry.                                        *)
(***************************************************************************)
\* C32: once _cancel_tasks_by_priority has returned, no task that was
\* cancelled or has completed is in self._tasks.
C32_EndedTasksLeaveRegistry ==
    (cancel_runs >= 1 /\ pc.at \notin {"cancel_tasks", "cancelling"})
        => \A t \in Tasks :
               tstate[t] \in {"done", "cancelled"} => tasks[t] = "none"


(***************************************************************************)
(* Properties of the cleanup of one resource.                              *)
(***************************************************************************)
\* the attempts made for the resource all failed or timed out
AllFailed(r) ==
    \A k \in 1..Len(rsc_attempts[r]) : rsc_attempts[r][k] # "returned"

CleanupOver ==
    cleanup_runs >= 1 /\ pc.at \notin {"cleanup_resources", "cleanup_groups"}

\* C34: when the resource cleanup of CLEANUP_RESOURCES is over, every
\* resource with a cleanup handler is CLEANED or FAILED in the state machine
\* of the shutdown manager.
C34_CleanupEndsCleanedOrFailed ==
    CleanupOver =>
        \A n \in cleanup_handlers :
            StateOf(state_machine_states, n) \in {"CLEANED", "FAILED"}


(***************************************************************************)
(* Properties of the adaptive timeouts.                                    *)
(***************************************************************************)
\* the last n items of a sequence
LastN(seq, n) ==
    IF Len(seq) <= n THEN seq ELSE SubSeq(seq, Len(seq) - n + 1, Len(seq))

\* the mean of a non-empty sequence of durations, clamped to [lo, hi]
ClampedMean(seq, lo, hi) ==
    IF SumOf(seq) < lo * Len(seq) THEN [num |-> lo, den |-> 1]
    ELSE IF SumOf(seq) > hi * Len(seq) THEN [num |-> hi, den |-> 1]
    ELSE [num |-> SumOf(seq), den |-> Len(seq)]

\* C35: the history of a key holds the HistorySize most recent of the
\* durations recorded for it, older ones being gone, and the timeout of the
\* key is the mean of those clamped to [min, max], or min when none was
\* recorded.
C35_TimeoutIsClampedRecentMean ==
    atm_built =>
        \A key \in Keys :
            LET recent == LastN(timings_recorded[key], HistorySize)
                t == timeout_of(atm_history, atm_min, atm_max, key)
                e == ClampedMean(recent, atm_min, atm_max)
            IN  /\ HistoryOf(atm_history, key) = recent
                /\ atm_min <= atm_max =>
                       IF recent = <<>> THEN t = [num |-> atm_min, den |-> 1]
                       ELSE t.num * e.den = e.num * t.den

\* more than HistorySize unequal durations were recorded for a key, the
\* first of them is gone, and the mean of the others lies strictly between
\* min and max and is the timeout of the key
C35_Witness ==
    \E key \in Keys :
        LET log == timings_recorded[key]
            q == HistoryOf(atm_history, key)
            t == timeout_of(atm_history, atm_min, atm_max, key)
        IN  /\ atm_built
            /\ Len(log) > HistorySize
            /\ log[1] # log[Len(log)]
            /\ SumOf(log) * Len(q) # SumOf(q) * Len(log)
            /\ atm_min * Len(q) < SumOf(q)
            /\ SumOf(q) < atm_max * Len(q)
            /\ t.num * Len(q) = SumOf(q) * t.den

\* C36: once a task has acknowledged its cancellation, the time between the
\* request and the acknowledgment is in the history of the adaptive timeouts
\* (GracefulShutdown._adaptive_timeouts, an AdaptiveTimeoutManager), under
\* some key.
C36_CancelDurationInHistory ==
    \A t \in Tasks :
        tstate[t] = "cancelled"
            => \E key \in Keys : HistoryOf(atm_history, key) # <<>>

\* C37: the registered dependency graph (self._dependency_graph) has no
\* cycle in any reachable state, a registration that would close one being
\* rejected without a change of the graph.
C37_DependencyGraphAcyclic ==
    Acyclic(dependency_graph)

\* C38: once the cleanup of the resources is over, every registered cleanup
\* handler was invoked, those of resources without a dependency edge
\* included.
C38_EveryHandlerInvoked ==
    CleanupOver => \A n \in cleanup_handlers : n \in cleanup.invoked

C40_ShuttingDownFromFirstCallOn ==
    is_shutting_down <=> \E c \in Callers : caller[c] \in {"running", "returned"}

\* the first shutdown() call has returned, a later call found the shutdown
\* in progress, and is_shutting_down() is true
C40_Witness ==
    /\ pc.at = "done"
    /\ \E c \in Callers : caller[c] = "returned"
    /\ \E c \in Callers : caller[c] = "noop"
    /\ is_shutting_down

=============================================================================
